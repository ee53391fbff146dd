------------------------------- MODULE Crypto -------------------------------
(***************************************************************************)
(* The control around the primitives of crypto/: how MD5 and SHA1 cut a    *)
(* message that arrives in parts into blocks and pad it (cghash/, cgmac/), *)
(* how files and strings are encrypted block by block (encrypt/), and the  *)
(* pool of the random number generator (prng/).  The compression functions *)
(* and AES are left uninterpreted: a digest is the blocks it was made of, a*)
(* cipher block is its predecessor with its plain text.                    *)
(***************************************************************************)
EXTENDS Integers, Sequences, SequencesExt

CONSTANTS BlockSize, LenSize,  \* bytes of a block and of the length in the last one
          WordSize,            \* values of a word of the bit counters
          Parts, MaxMsg,       \* messages arrive in Parts, bound: bytes in all
          AesBlock, Transfer,  \* AES_BLOCK_SIZE, JF_LIMIT_MAX_DATA_TRANSFER_SIZE
          SizeSpan,            \* values of an olsize_t, which is signed
          PoolMax, Digest,     \* PRNG_POOL_SIZE, JF_CGHASH_MD5_DIGEST_LEN
          Needed,              \* ENTROPY_NEEDED
          OwnSeeds, GetLens,   \* sizes of the seeds of process and time, of random data
          Devices, MaxInits    \* RANDOM_DEV, bound: calls of jf_prng_init

VARIABLES pside,               \* the half that runs: "hash" or "prng"
          msg, md5, sha1,      \* the bytes so far, the contexts
          pool, inits          \* ls_ipPrng, the calls of jf_prng_init so far
cryptoVars == <<pside, msg, md5, sha1, pool, inits>>

(* A byte is a tuple: of its value, of a byte of the key and the constant  *)
(* it is combined with, or of a digest and a place in it.                  *)
Zeros(n) == [i \in 1..n |-> <<0>>]
Mark == <<<<128>>>>
Cut(s, n) == SubSeq(s, 1, IF n < Len(s) THEN n ELSE Len(s))
From(s, n) == SubSeq(s, n, Len(s))
Blocks(s, size) == [k \in 1..(Len(s) \div size) |-> SubSeq(s, size * (k - 1) + 1, size * k)]

-----------------------------------------------------------------------------
(* MD5Init, MD5Update: the counter of bits in two words, the bytes that    *)
(* wait in the buffer and the blocks transformed so far.  Stale bytes stay *)
(* in the buffer.                                                          *)
Md5Init == [lo |-> 0, hi |-> 0, buffer |-> Zeros(BlockSize), done |-> <<>>]

Overwrite(b, i, s) == [k \in 1..Len(b) |-> IF k > i /\ k <= i + Len(s) THEN s[k - i] ELSE b[k]]

Md5Count(c, n) == LET bits == (8 * n) % WordSize
                      lo == (c.lo + bits) % WordSize
                  IN [c EXCEPT !.lo = lo, !.hi = @ + (IF lo < bits THEN 1 ELSE 0) + (8 * n) \div WordSize]

(* Mutant: one block at most is digested per call.                         *)
Md5UpdateOnce(c, input) ==
    LET idx == (c.lo \div 8) % BlockSize
        part == BlockSize - idx
    IN IF Len(input) >= part
       THEN [Md5Count(c, Len(input)) EXCEPT
               !.done = Append(@, Overwrite(c.buffer, idx, Cut(input, part))),
               !.buffer = Overwrite(Overwrite(c.buffer, idx, Cut(input, part)), 0, Cut(From(input, part + 1), BlockSize))]
       ELSE [Md5Count(c, Len(input)) EXCEPT !.buffer = Overwrite(@, idx, input)]

Md5Update(c, input) ==
    LET idx == (c.lo \div 8) % BlockSize
        part == BlockSize - idx
        first == Overwrite(c.buffer, idx, Cut(input, part))
        more == Blocks(From(input, part + 1), BlockSize)
    IN IF Len(input) >= part
       THEN [Md5Count(c, Len(input)) EXCEPT
               !.done = @ \o <<first>> \o more,
               !.buffer = Overwrite(first, 0, From(input, part + 1 + BlockSize * Len(more)))]
       ELSE [Md5Count(c, Len(input)) EXCEPT !.buffer = Overwrite(@, idx, input)]

(* MD5Final: padding up to the length, then the length in bits.            *)
Bits(hi, lo) == <<<<lo>>, <<hi>>>> \o Zeros(LenSize - 2)

Md5Final(c) ==
    LET idx == (c.lo \div 8) % BlockSize
        pad == IF idx < BlockSize - LenSize THEN BlockSize - LenSize - idx ELSE 2 * BlockSize - LenSize - idx
    IN Md5Update(Md5Update(c, Mark \o Zeros(pad - 1)), Bits(c.hi, c.lo)).done

Bytes(done) == [i \in 1..Digest |-> <<"digest", i, done>>]
Md5Of(parts) == Bytes(Md5Final(FoldLeft(Md5Update, Md5Init, parts)))

-----------------------------------------------------------------------------
(* SHA1Reset and SHA1Input, byte by byte.                                  *)
Sha1Reset == [len |-> 0, high |-> 0, index |-> 0, block |-> Zeros(BlockSize), done |-> <<>>,
              computed |-> FALSE, corrupted |-> FALSE]

ProcessMessageBlock(c) == [c EXCEPT !.done = Append(@, c.block), !.index = 0]

PutByte(c, b) == [c EXCEPT !.block = Overwrite(@, c.index, <<b>>), !.index = @ + 1]

InputByte(c, b) ==
    LET low == (c.len + 8) % WordSize
        high == IF low = 0 THEN (c.high + 1) % WordSize ELSE c.high
        d == [PutByte(c, b) EXCEPT !.len = low, !.high = high, !.corrupted = low = 0 /\ high = 0]
    IN IF d.index = BlockSize THEN ProcessMessageBlock(d) ELSE d

RECURSIVE InputBytes(_, _)
InputBytes(c, s) == IF s = <<>> \/ c.corrupted THEN c ELSE InputBytes(InputByte(c, Head(s)), Tail(s))

Sha1Input(c, s) == IF s = <<>> THEN c ELSE IF c.computed THEN [c EXCEPT !.corrupted = TRUE] ELSE InputBytes(c, s)

(* SHA1PadMessage: into a second block if the length does not fit.         *)
RECURSIVE PadTo(_, _)
PadTo(c, n) == IF c.index < n THEN PadTo(PutByte(c, <<0>>), n) ELSE c

PadMessage(c) ==
    LET room == BlockSize - LenSize
        d == PutByte(c, <<128>>)
        e == PadTo(IF c.index > room - 1 THEN ProcessMessageBlock(PadTo(d, BlockSize)) ELSE d, room)
    IN ProcessMessageBlock([e EXCEPT !.block = Overwrite(@, room, Bits(c.high, c.len))])

Sha1Result(c) == PadMessage(c).done

Sha1Of(parts) == Bytes(Sha1Result(FoldLeft(Sha1Input, Sha1Reset, parts)))

-----------------------------------------------------------------------------
(* jf_cgmac_doHmacMd5, and doHmacSha1 alike: a long key is replaced by its *)
(* digest; the two pads fill a block each.                                 *)
Pad(key, x) == [i \in 1..BlockSize |-> IF i <= Len(key) THEN <<key[i], x>> ELSE <<<<0>>, x>>]

HmacMd5(key, s) ==
    LET k == IF Len(key) > BlockSize THEN Md5Of(<<key>>) ELSE key
    IN Md5Of(<<Pad(k, 92), Md5Of(<<Pad(k, 54), s>>)>>)

HmacSha1(key, s) ==
    LET k == IF Len(key) > BlockSize THEN Sha1Of(<<key>>) ELSE key
    IN Sha1Of(<<Pad(k, 92), Sha1Of(<<Pad(k, 54), s>>)>>)

-----------------------------------------------------------------------------
(* AES_cbc_encrypt: a cipher block stands for the plain blocks up to it,   *)
(* the last of them its own; a wrong predecessor decrypts to garbage.      *)
Ceil(n, a) == ((n + a - 1) \div a) * a
Fill(s, with) == s \o [i \in 1..(Ceil(Len(s), AesBlock) - Len(s)) |-> with]

CbcEncrypt(s, iv) == [k \in 1..(Len(s) \div AesBlock) |-> iv \o Cut(Blocks(s, AesBlock), k)]
CbcDecrypt(cs, iv) ==
    FlattenSeq([k \in 1..Len(cs) |-> IF Front(cs[k]) = (IF k = 1 THEN iv ELSE cs[k - 1])
                                     THEN Last(cs[k]) ELSE [i \in 1..AesBlock |-> <<"garbage">>]])

(* jf_encrypt_encryptFile: the size, then what is read at a time, filled   *)
(* up to whole AES blocks; iv carries the chain from one read to the next. *)
RECURSIVE EncryptReads(_, _)
EncryptReads(s, iv) ==
    IF s = <<>> THEN <<>>
    ELSE LET c == CbcEncrypt(Fill(Cut(s, Transfer), <<"stale">>), iv)
         IN c \o EncryptReads(From(s, Transfer + 1), Last(c))

EncryptFile(s) == [size |-> Len(s), body |-> EncryptReads(s, <<>>)]

(* jf_encrypt_decryptFile: what is read at a time, cut to the bytes left;  *)
(* jf_filestream_writen asserts that there are some.  The size, a u64 in   *)
(* the file, is cast to an olsize_t.                                       *)
Aborted == <<<<"aborted">>>>

RECURSIVE DecryptReads(_, _, _)
DecryptReads(cs, iv, left) ==
    LET now == Cut(cs, Transfer \div AesBlock)
        out == Cut(CbcDecrypt(now, iv), left)
    IN IF cs = <<>> THEN <<>> ELSE IF left <= 0 THEN Aborted
       ELSE out \o DecryptReads(From(cs, Len(now) + 1), Last(now), left - Len(out))

OlSize(n) == ((n + SizeSpan \div 2) % SizeSpan) - (SizeSpan \div 2)
DecryptFile(f) == DecryptReads(f.body, <<>>, OlSize(f.size))

(* jf_encrypt_encryptString and jf_encrypt_decryptString of a string that  *)
(* is not empty: zeros fill the last block and end the string.             *)
EncryptString(s) == CbcEncrypt(Fill(s, <<0>>), <<>>)
DecryptString(cs) == SelectSeq(CbcDecrypt(cs, <<>>), LAMBDA c : c # <<0>>)

-----------------------------------------------------------------------------
(* jf_prng_seed: the index moves on and the pool grows up to it; `at' are  *)
(* the places written, one behind the other from the index, around the end.*)
Walk(i, n, size) == {IF i < size THEN (i + k) % size ELSE IF k = 0 THEN i ELSE (k - 1) % size : k \in 0..(n - 1)}

Seed(p, n, e) ==
    LET i == p.index + n IN
    [p EXCEPT !.index = IF i >= PoolMax THEN i % PoolMax ELSE i,
              !.size = IF i >= PoolMax THEN PoolMax ELSE IF i > @ THEN i ELSE @,
              !.entropy = @ + e,
              !.at = @ \cup Walk(p.index, n, PoolMax)]

(* The stirring of _getPrngData: PoolMax bytes of dummy seed.              *)
RECURSIVE Stir(_, _)
Stir(p, left) == IF left <= 0 THEN p ELSE Stir(Seed(p, Digest, 0), left - Digest)

GetPrngData(p, n) ==
    LET enough == p.entropy >= Needed
        count == Ceil(n, Digest \div 2)
        s == IF p.stirred THEN p ELSE Stir(p, PoolMax)
        i == s.index + count
    IN [s EXCEPT !.entropy = IF enough THEN @ ELSE IF @ > n THEN @ - n ELSE 0,
                 !.stirred = @ \/ enough,
                 !.index = IF i > s.size THEN i % s.size ELSE i,
                 !.at = @ \cup Walk(s.index, count, s.size),
                 !.ok = enough]

(* _getSeedFromSystem: the devices in turn until there is enough; the error*)
(* of the last one tried is the result, a device seen before is skipped.   *)
RECURSIVE FromDevices(_, _, _, _)
FromDevices(results, i, sread, err) ==
    IF i > Len(results) \/ sread >= Needed THEN [sread |-> sread, err |-> err]
    ELSE LET r == results[i] IN
         FromDevices(results, i + 1, sread + (IF r > Needed - sread THEN Needed - sread ELSE IF r > 0 THEN r ELSE 0), r < 0)

(* getSeed: the seed of the system is Needed bytes, however many of them   *)
(* were read; process and time add seeds without entropy.                  *)
GetSeed(p, results) ==
    LET sys == FromDevices(results, 1, 0, FALSE)
        q == IF sys.sread > 0 THEN Seed(p, Needed, sys.sread) ELSE p
    IN IF sys.err THEN q ELSE [FoldLeft(LAMBDA r, n : Seed(r, n, 0), q, OwnSeeds) EXCEPT !.init = TRUE]

-----------------------------------------------------------------------------
CryptoInit ==
    /\ pside \in {"hash", "prng"}
    /\ msg = <<>> /\ md5 = Md5Init /\ sha1 = Sha1Reset /\ inits = 0
    /\ pool = [init |-> FALSE, index |-> 0, size |-> 0, entropy |-> 0, stirred |-> FALSE, at |-> {}, ok |-> FALSE]

(* jf_cghash_updateMd5 and jf_cghash_updateSha1 with the same part.        *)
Update(n) ==
    LET part == [i \in 1..n |-> <<Len(msg) + i>>] IN
    /\ pside = "hash" /\ Len(msg) + n <= MaxMsg
    /\ msg' = msg \o part
    /\ md5' = Md5Update(md5, part) /\ sha1' = Sha1Input(sha1, part)
    /\ UNCHANGED <<pside, pool, inits>>

(* jf_cghash_finalMd5 and jf_cghash_finalSha1 leave a fresh context.       *)
Final ==
    /\ pside = "hash" /\ msg # <<>>
    /\ msg' = <<>> /\ md5' = Md5Init /\ sha1' = Sha1Reset
    /\ UNCHANGED <<pside, pool, inits>>

(* jf_prng_init, with what each device gives: -1 an error, 0 nothing or a  *)
(* device seen before, or a number of bytes.                               *)
PrngInit(results) ==
    /\ pside = "prng" /\ ~pool.init /\ inits < MaxInits
    /\ inits' = inits + 1 /\ pool' = GetSeed([pool EXCEPT !.at = {}], results)
    /\ UNCHANGED <<pside, msg, md5, sha1>>

(* jf_prng_fini: the pool keeps its content.                               *)
PrngFini ==
    /\ pside = "prng" /\ pool.init
    /\ pool' = [pool EXCEPT !.init = FALSE]
    /\ UNCHANGED <<pside, msg, md5, sha1, inits>>

(* jf_prng_getData, which holds the lock for the whole of _getPrngData.    *)
PrngGetData(n) ==
    /\ pside = "prng" /\ pool.init
    /\ pool' = GetPrngData([pool EXCEPT !.at = {}], n)
    /\ UNCHANGED <<pside, msg, md5, sha1, inits>>

CryptoNext == \/ \E n \in Parts : Update(n)
              \/ Final
              \/ \E results \in [1..Devices -> -1..Needed] : PrngInit(results)
              \/ PrngFini
              \/ \E n \in GetLens : PrngGetData(n)

CryptoSpec == CryptoInit /\ [][CryptoNext]_cryptoVars

-----------------------------------------------------------------------------
(* The message padded by the rules of the two standards.                   *)
Padded(s) ==
    LET rest == (Len(s) + 1 + LenSize) % BlockSize
        bits == 8 * Len(s)
    IN s \o Mark \o Zeros(IF rest = 0 THEN 0 ELSE BlockSize - rest) \o Bits(bits \div WordSize, bits % WordSize)

(* The hash and the keyed hash by definition.                              *)
HashOf(s) == Bytes(Blocks(Padded(s), BlockSize))
HmacOf(key, s) == LET k == IF Len(key) > BlockSize THEN HashOf(key) ELSE key
                  IN HashOf(Pad(k, 92) \o HashOf(Pad(k, 54) \o s))

(* However a message is cut into parts, both hashes transform the blocks   *)
(* of the padded message: no byte is lost or repeated where a part ends in,*)
(* at or behind the end of a block, and the length has its carry.  The     *)
(* keyed hashes, whose context is used twice, are those of the definition  *)
(* for keys shorter and longer than a block.                               *)
HashesExact ==
    /\ Md5Final(md5) = Blocks(Padded(msg), BlockSize)
    /\ Sha1Result(sha1) = Blocks(Padded(msg), BlockSize)
    /\ ~sha1.corrupted
    /\ LET input == From(msg, 2) IN
       HmacMd5(msg, input) = HmacOf(msg, input) /\ HmacSha1(msg, input) = HmacOf(msg, input)

(* A file and a string that is not empty are decrypted to what they were,  *)
(* whether they end inside, at the end or at the start of a block or of a  *)
(* transfer buffer, a file as long as its size is an olsize_t.             *)
CiphersRoundTrip == /\ OlSize(Len(msg)) = Len(msg) => DecryptFile(EncryptFile(msg)) = msg
                    /\ msg # <<>> => DecryptString(EncryptString(msg)) = msg

(* Every file is decrypted to what it was: its size is stored in 64 bits.  *)
(* VIOLATED: the size is cast to 32 bits with a sign, and the assertion of *)
(* jf_filestream_writen ends the decryption of files of 2 GB and more.     *)
LargeFilesRoundTrip == DecryptFile(EncryptFile(msg)) = msg

(* The pool is written at its places and at most at the reserved byte      *)
(* behind it; random data is only given as such once the devices have given*)
(* enough entropy, and only then is the pool stirred for good.             *)
PoolSound ==
    /\ \A i \in pool.at : i \in 0..PoolMax
    /\ pool.index <= PoolMax /\ pool.size <= PoolMax
    /\ pool.ok \/ pool.stirred => pool.size = PoolMax /\ pool.entropy >= Needed

(* The pool is written at its places only.  VIOLATED: an index equal to    *)
(* the size of the pool is not wrapped, the reserved byte behind the pool  *)
(* takes the write.                                                        *)
PoolInBounds == \A i \in pool.at : i < PoolMax
=============================================================================
