------------------------------ MODULE Vectors ------------------------------
(***************************************************************************)
(* The byte containers of jiutai.                                          *)
(*   jf_datavec.h   a vector of buffers filled and read as one stream      *)
(*   jf_bitarray.h  a big endian array of bits kept in units               *)
(* The unit of a bit array is 8 bits in the code and UnitBits here.        *)
(***************************************************************************)
EXTENDS Integers, Sequences, FiniteSets, SequencesExt

CONSTANTS
    MaxEntry,       \* JF_DATAVEC_MAX_ENTRY
    BufSizes,       \* sizes of the buffers of a vector
    MaxCopy,        \* bound: bytes given to one jf_datavec_copyData
    UnitBits,       \* JF_BITARRAY_BITS_PER_UNIT
    Units           \* JF_BITARRAY_CHARS of the array

VARIABLES
    vec,            \* entries [size, offset, data] and jd_u16NumOfEntry
    given,          \* bytes accepted by copyData since the last reinit, in order
    ba,             \* units of the bit array, index 0 the most significant
    bits,           \* the same as one number
    old,            \* [ba, bits] before the latest bit array operation
    side            \* which of the two containers this behaviour uses

vectorVars == <<vec, given, ba, bits, old, side>>

Pow2(n) == 2 ^ n
UnitMax == Pow2(UnitBits) - 1
NumBits == UnitBits * Units
Smaller(a, b) == IF a < b THEN a ELSE b

-----------------------------------------------------------------------------
EmptyEntry(size) == [size |-> size, offset |-> 0, data |-> <<>>]
EntrySizes == {vec.entry[i].size : i \in 1..MaxEntry}

\* jf_datavec_setData: entries beyond the given ones keep no buffer.
SetData(sizes) ==
    /\ vec' = [num |-> Len(sizes), entry |-> [i \in 1..MaxEntry |->
                 IF i <= Len(sizes)
                 THEN [size |-> sizes[i], offset |-> sizes[i], data |-> [k \in 1..sizes[i] |-> 0]]
                 ELSE EmptyEntry(0)]]
    /\ given' = [k \in 1..FoldLeft(LAMBDA a, b : a + b, 0, sizes) |-> 0]
    /\ UNCHANGED <<ba, bits, old>>

\* jf_datavec_reinit rewinds all entries and keeps their buffers.
Reinit ==
    /\ vec' = [num |-> 0, entry |-> [i \in 1..MaxEntry |->
                 [vec.entry[i] EXCEPT !.offset = 0, !.data = <<>>]]]
    /\ given' = <<>>
    /\ UNCHANGED <<ba, bits, old>>

RECURSIVE CopyInto(_, _, _)
CopyInto(v, data, done) ==
    IF data = <<>> \/ v.num = MaxEntry THEN [vec |-> v, copied |-> done]
    ELSE LET e == v.entry[v.num + 1]
             n == Smaller(Len(data), e.size - e.offset)
         IN  CopyInto([v EXCEPT !.entry[v.num + 1] =
                           [@ EXCEPT !.offset = @ + n, !.data = @ \o SubSeq(data, 1, n)],
                                !.num = IF e.offset + n = e.size THEN @ + 1 ELSE @],
                      SubSeq(data, n + 1, Len(data)), done + n)

CopyData(n) ==
    LET data == [k \in 1..n |-> Len(given) + k]
        r    == CopyInto(vec, data, 0)
    IN  /\ vec' = r.vec
        /\ given' = given \o SubSeq(data, 1, r.copied)
        /\ UNCHANGED <<ba, bits, old>>

\* jf_datavec_set: the entries before the offset are full, the next one partly.
RECURSIVE SetOffset(_, _, _)
SetOffset(v, i, offset) ==
    IF i > MaxEntry THEN [v EXCEPT !.num = MaxEntry]
    ELSE IF offset >= v.entry[i].size
    THEN SetOffset([v EXCEPT !.entry[i].offset = v.entry[i].size], i + 1, offset - v.entry[i].size)
    ELSE [v EXCEPT !.entry[i].offset = offset, !.num = i]

\* jf_datavec_locate: entry index and offset in it, index 0 for NULL.
RECURSIVE LocateFrom(_, _, _)
LocateFrom(v, i, offset) ==
    IF i > v.num THEN [entry |-> 0, offset |-> 0]
    ELSE IF offset >= v.entry[i].offset THEN LocateFrom(v, i + 1, offset - v.entry[i].size)
    ELSE [entry |-> i, offset |-> offset]
Locate(v, offset) == LocateFrom(v, 1, offset)

\* jf_datavec_cloneVec copies the entries counted by jd_u16NumOfEntry; when the
\* copy of entry fail cannot be allocated, freeData releases the ones before it.
CloneVec(v, fail) ==
    LET tried == IF fail \in 1..v.num THEN fail ELSE v.num
        got   == (1..tried) \ {fail}
    IN  IF fail \in 1..v.num
        THEN [vec |-> [num |-> 0, entry |-> [i \in 1..MaxEntry |-> EmptyEntry(0)]],
              buffers |-> got \ (1..tried)]
        ELSE [vec |-> [num |-> v.num, entry |-> [i \in 1..MaxEntry |->
                         IF i \in got THEN v.entry[i] ELSE EmptyEntry(0)]],
              buffers |-> got]

Content(v) == FlattenSeq([i \in 1..MaxEntry |-> v.entry[i].data])

-----------------------------------------------------------------------------
(***************************************************************************)
(* Bit arrays.  Unit u holds bits u * UnitBits onward, the first bit in    *)
(* the most significant place.                                             *)
(***************************************************************************)
BitChar(pos) == pos \div UnitBits
BitInChar(pos) == Pow2(UnitBits - 1 - (pos % UnitBits))
TestBit(a, pos) == (a[BitChar(pos)] \div BitInChar(pos)) % 2 = 1
SetBit(a, pos) == IF TestBit(a, pos) THEN a ELSE [a EXCEPT ![BitChar(pos)] = @ + BitInChar(pos)]
ClearBit(a, pos) == IF TestBit(a, pos) THEN [a EXCEPT ![BitChar(pos)] = @ - BitInChar(pos)] ELSE a

Zero == [i \in 0..(Units - 1) |-> 0]
Shl(u, n) == (u * Pow2(n)) % (UnitMax + 1)
Shr(u, n) == u \div Pow2(n)

\* Whole units first, then the rest across neighbours; the loops run upwards, so
\* each unit is combined with a neighbour that has not been shifted yet.
LShift(a, shift) ==
    LET chars  == shift \div UnitBits
        remain == shift % UnitBits
        moved  == [i \in 0..(Units - 1) |-> IF i + chars < Units THEN a[i + chars] ELSE 0]
    IN  IF shift >= NumBits THEN Zero
        ELSE [i \in 0..(Units - 1) |->
               IF remain = 0 THEN moved[i]
               ELSE Shl(moved[i], remain)
                    + (IF i + 1 < Units THEN Shr(moved[i + 1], UnitBits - remain) ELSE 0)]

RShift(a, shift) ==
    LET chars  == shift \div UnitBits
        remain == shift % UnitBits
        moved  == [i \in 0..(Units - 1) |-> IF i >= chars THEN a[i - chars] ELSE 0]
    IN  IF shift >= NumBits THEN Zero
        ELSE [i \in 0..(Units - 1) |->
               IF remain = 0 THEN moved[i]
               ELSE Shr(moved[i], remain)
                    + (IF i > 0 THEN Shl(moved[i - 1], UnitBits - remain) ELSE 0)]

Increment(a) ==
    LET below == {i \in 0..(Units - 1) : a[i] # UnitMax}
        stop  == IF below = {} THEN -1 ELSE CHOOSE i \in below : \A j \in below : j <= i
    IN  [i \in 0..(Units - 1) |-> IF i > stop THEN 0 ELSE IF i = stop THEN a[i] + 1 ELSE a[i]]

Decrement(a) ==
    LET above == {i \in 0..(Units - 1) : a[i] >= 1}
        stop  == IF above = {} THEN -1 ELSE CHOOSE i \in above : \A j \in above : j <= i
    IN  [i \in 0..(Units - 1) |-> IF i > stop THEN UnitMax ELSE IF i = stop THEN a[i] - 1 ELSE a[i]]

BitNot(a) == [i \in 0..(Units - 1) |-> UnitMax - a[i]]

\* AND, OR and XOR, unit by unit and bit by bit in the unit.
Bitwise2(a, b, Op(_, _)) ==
    [i \in 0..(Units - 1) |->
       FoldSet(LAMBDA n, s : s + IF Op((a[i] \div Pow2(n)) % 2 = 1, (b[i] \div Pow2(n)) % 2 = 1)
                                 THEN Pow2(n) ELSE 0, 0, 0..(UnitBits - 1))]
BitAnd(a, b) == Bitwise2(a, b, LAMBDA x, y : x /\ y)
BitOr(a, b) == Bitwise2(a, b, LAMBDA x, y : x \/ y)
BitXor(a, b) == Bitwise2(a, b, LAMBDA x, y : x # y)

Number(a) == FoldSet(LAMBDA i, s : s + a[i] * Pow2(UnitBits * (Units - 1 - i)), 0, 0..(Units - 1))

Update(a, n) == ba' = a /\ bits' = n /\ old' = [ba |-> ba, bits |-> bits] /\ UNCHANGED <<vec, given>>
Wrap(n) == n % Pow2(NumBits)

BitNext ==
    \/ \E pos \in 0..(NumBits - 1) : LET w == Pow2(NumBits - 1 - pos) IN
         \/ Update(SetBit(ba, pos), IF TestBit(ba, pos) THEN bits ELSE bits + w)
         \/ Update(ClearBit(ba, pos), IF TestBit(ba, pos) THEN bits - w ELSE bits)
    \/ \E n \in 1..(NumBits + 1) :
         \/ Update(LShift(ba, n), Wrap(bits * Pow2(n)))
         \/ Update(RShift(ba, n), bits \div Pow2(n))
    \/ Update(Increment(ba), Wrap(bits + 1))
    \/ Update(Decrement(ba), Wrap(bits - 1))
    \/ Update(BitNot(ba), Pow2(NumBits) - 1 - bits)

VectorsInit ==
    /\ \E sizes \in [1..MaxEntry -> BufSizes] :
         /\ vec = [num |-> 0, entry |-> [i \in 1..MaxEntry |-> EmptyEntry(sizes[i])]]
         /\ side \in {"vector", "bits"}
         /\ side = "bits" => sizes = [i \in 1..MaxEntry |-> CHOOSE s \in BufSizes : TRUE]
    /\ given = <<>>
    /\ ba = Zero /\ bits = 0 /\ old = [ba |-> Zero, bits |-> 0]

VecNext ==
    \/ \E n \in 1..MaxCopy : CopyData(n)
    \/ Reinit
    \/ \E n \in 1..(MaxEntry - 1) : \E sizes \in [1..n -> BufSizes] : SetData(sizes)

VectorsNext ==
    \/ side = "vector" /\ VecNext /\ UNCHANGED side
    \/ side = "bits" /\ BitNext /\ UNCHANGED side

VectorsSpec == VectorsInit /\ [][VectorsNext]_vectorVars

-----------------------------------------------------------------------------
(***************************************************************************)
(* The entries of a vector, read one after the other, hold exactly the     *)
(* bytes copyData accepted; only the last one used may be partly full and  *)
(* no entry holds more than its buffer.  After jf_datavec_set every offset *)
(* below the new end is located in the entry and at the place it has in    *)
(* the stream.  A clone holds the full entries, or no buffer at all.       *)
(***************************************************************************)
VectorExact ==
    /\ Content(vec) = given
    /\ \A i \in 1..MaxEntry : vec.entry[i].offset <= vec.entry[i].size
    /\ \A i \in 1..(MaxEntry - 1) : vec.entry[i + 1].offset > 0 => vec.entry[i].offset = vec.entry[i].size
    /\ \A end \in 0..Len(given) : \A k \in 0..(end - 1) :
         LET v == SetOffset(vec, 1, end)
             l == Locate(v, k)
         IN  l.entry # 0 /\ vec.entry[l.entry].data[l.offset + 1] = given[k + 1]
    /\ \A fail \in 0..vec.num :
         LET c == CloneVec(vec, fail) IN
         /\ Cardinality(c.buffers) = c.vec.num
         /\ fail = 0 => IsPrefix(Content(c.vec), given)

(***************************************************************************)
(* A bit array is the number its bits spell: shifts across the units       *)
(* multiply and divide it, increment and decrement carry through all       *)
(* units and wrap at the width, and the operations on two arrays are the   *)
(* ones on their bits.                                                     *)
(***************************************************************************)
BitsExact ==
    /\ Number(ba) = bits
    /\ \A pos \in 0..(NumBits - 1) :
         LET a == old.ba IN
         /\ TestBit(BitAnd(ba, a), pos) <=> TestBit(ba, pos) /\ TestBit(a, pos)
         /\ TestBit(BitOr(ba, a), pos) <=> TestBit(ba, pos) \/ TestBit(a, pos)
         /\ TestBit(BitXor(ba, a), pos) <=> TestBit(ba, pos) # TestBit(a, pos)

============================================================================
