------------------------------- MODULE Codec --------------------------------
(***************************************************************************)
(* The encode library and the hex conversions: base64 (encode/base64.c),   *)
(* Huffman codes (encode/huffman.c) and hex strings (jiutai/jf_hex.c).     *)
(*                                                                         *)
(* Side "data": data that grows byte by byte, encoded and decoded.         *)
(* Side "code": symbols that are counted one by one, and their codes.      *)
(***************************************************************************)
EXTENDS Integers, Sequences, SequencesExt

CONSTANTS Bytes, MaxLen,      \* the bytes of the data, bound: its length
          NumOfCode, MaxFreq, \* the symbols 1..NumOfCode, bound: their counts
          HeaderLen, LineLen  \* JF_HEX_BYTE_HEXSTR_HEADER_LEN, bytes of a line

VARIABLES cside, data, freq
codecVars == <<cside, data, freq>>

-----------------------------------------------------------------------------
(* base64.c; a character is its value, 64 is "=".                          *)
At(s, i) == IF i <= Len(s) THEN s[i] ELSE 0

EncodeBlock(s) ==
    LET v == <<At(s, 1) \div 4, (At(s, 1) % 4) * 16 + At(s, 2) \div 16,
               (At(s, 2) % 16) * 4 + At(s, 3) \div 64, At(s, 3) % 64>>
    IN [i \in 1..4 |-> IF i <= Len(s) + 1 THEN v[i] ELSE 64]

Block(s, size, k) == SubSeq(s, size * (k - 1) + 1, IF size * k < Len(s) THEN size * k ELSE Len(s))
NumBlocks(s, size) == (Len(s) + size - 1) \div size

EncodeBase64(s) == FlattenSeq([k \in 1..NumBlocks(s, 3) |-> EncodeBlock(Block(s, 3, k))])

(* The out array of _decodeBlock, of which one byte less than the          *)
(* characters of the block is kept.                                        *)
DecodeBlock(t) ==
    LET out == <<(At(t, 1) * 4 + At(t, 2) \div 16) % 256, (At(t, 2) * 16 + At(t, 3) \div 4) % 256,
                 (At(t, 3) * 64 + At(t, 4)) % 256>>
    IN SubSeq(out, 1, Len(t) - 1)

(* jf_encode_decodeBase64: characters outside the alphabet are skipped.    *)
DecodeBase64(t) ==
    LET u == SelectSeq(t, LAMBDA c : c < 64)
    IN FlattenSeq([k \in 1..NumBlocks(u, 4) |-> DecodeBlock(Block(u, 4, k))])

(* The sizes of the two buffers.                                           *)
EncodeSize(n) == (n * 4) \div 3 + 6
DecodeSize(n) == (n * 3) \div 4 + 6

-----------------------------------------------------------------------------
(* jf_hex.c; a character is the value of its digit.                        *)
Digit2(b) == <<b \div 16, b % 16>>

(* jf_hex_convertHexToString into sStr characters, without its terminator. *)
ConvertHexToString(s, sStr) ==
    FlattenSeq([i \in 1..(IF Len(s) < sStr \div 2 THEN Len(s) ELSE sStr \div 2) |-> Digit2(s[i])])

(* jf_hex_convertStringToHex.                                              *)
ConvertStringToHex(t, sHex) ==
    [i \in 1..(IF Len(t) \div 2 < sHex THEN Len(t) \div 2 ELSE sHex) |-> t[2 * i - 1] * 16 + t[2 * i]]

(* jf_hex_convertByteDataToString and jf_hex_convertWordDataToString: how  *)
(* many bytes (words), of w characters each, go into a line.               *)
LeastOf(S) == CHOOSE n \in S : \A k \in S : n <= k
ConvertDataToString(n, offset, sStr, w) == LeastOf({(sStr - HeaderLen) \div w, LineLen, n - offset})

(* jf_hex_convertByteDataToStringWithAscii: the characters of the line.    *)
LineWithAscii(n, offset) == LET k == LeastOf({LineLen, n - offset})
                            IN [bytes |-> k, len |-> HeaderLen - 1 + 3 * LineLen + 3 + k]

(* jf_hex_dumpByteDataBuffer: the lines from offset on.                    *)
RECURSIVE DumpLines(_, _)
DumpLines(n, offset) == IF offset >= n THEN <<>>
                        ELSE LET l == LineWithAscii(n, offset) IN <<l>> \o DumpLines(n, offset + l.bytes)

-----------------------------------------------------------------------------
(* huffman.c.  A node is a symbol or a pair, with its count and level.     *)
Leaves == [i \in 1..NumOfCode |->
             IF freq[i] = 0 THEN <<>> ELSE <<[sym |-> i, freq |-> freq[i], level |-> 0, kids |-> <<>>]>>]

(* _findMinimumFreq: the first of the smallest counts, the lower level of  *)
(* equal ones; 0 for none.                                                 *)
FindMinimumFreq(ns) ==
    LET live == {i \in 1..Len(ns) : ns[i] # <<>>}
        below(i, j) == \/ ns[i][1].freq < ns[j][1].freq
                       \/ ns[i][1].freq = ns[j][1].freq /\ ns[i][1].level < ns[j][1].level
        best == {i \in live : \A j \in live : ~below(j, i)}
    IN IF live = {} THEN 0 ELSE LeastOf(best)

(* _getHuffmanCompositeNode.                                               *)
CompositeNode(l, r) == [sym |-> 0, freq |-> l.freq + r.freq, kids |-> <<l, r>>,
                        level |-> 1 + (IF l.level > r.level THEN l.level ELSE r.level)]

(* _buildHuffmanTree: the set of the root, {} for an error.                *)
RECURSIVE BuildHuffmanTree(_)
BuildHuffmanTree(ns) ==
    LET i == FindMinimumFreq(ns) IN
    IF i = 0 THEN {}
    ELSE LET rest == [ns EXCEPT ![i] = <<>>]
             j == FindMinimumFreq(rest)
         IN IF j = 0 THEN {ns[i][1]}
            ELSE BuildHuffmanTree([rest EXCEPT ![i] = <<CompositeNode(ns[i][1], ns[j][1])>>, ![j] = <<>>])

(* _genHuffmanCode: the walk of the tree, a bit per branch.                *)
RECURSIVE GenHuffmanCode(_, _)
GenHuffmanCode(n, code) ==
    IF n.kids = <<>> THEN {<<n.sym, code>>}
    ELSE GenHuffmanCode(n.kids[1], Append(code, 0)) \cup GenHuffmanCode(n.kids[2], Append(code, 1))

(* _genCanonicalHuffmanCode: the lengths alone, 1 for a tree of one leaf.  *)
CodeLengths(codes) ==
    [i \in 1..NumOfCode |-> IF \E c \in codes : c[1] = i
                            THEN LET n == Len((CHOOSE c \in codes : c[1] = i)[2]) IN IF n = 0 THEN 1 ELSE n
                            ELSE 0]

(* _assignCanonicalCodes: from the longest code on, numbers that grow by   *)
(* one and are shifted where the length falls (_compareByCodeLen).         *)
Power2(n) == LET P[i \in 0..n] == IF i = 0 THEN 1 ELSE 2 * P[i - 1] IN P[n]
Bits(v, n) == [i \in 1..n |-> (v \div Power2(n - i)) % 2]
ByCodeLen(len) == SortSeq([i \in 1..NumOfCode |-> i],
                          LAMBDA a, b : len[a] < len[b] \/ (len[a] = len[b] /\ a < b))

RECURSIVE AssignCanonicalCodes(_, _, _, _, _)
AssignCanonicalCodes(len, order, i, code, length) ==
    IF i = 0 \/ len[order[i]] = 0 THEN {}
    ELSE LET n == len[order[i]]
             c == code \div Power2(length - n)
         IN {<<order[i], Bits(c, n)>>} \cup AssignCanonicalCodes(len, order, i - 1, c + 1, n)

(* jf_encode_genCanonicalHuffmanCodeByCodeLen.                             *)
GenCanonicalCode(len) ==
    LET order == ByCodeLen(len)
    IN AssignCanonicalCodes(len, order, NumOfCode, 0, len[order[NumOfCode]])

-----------------------------------------------------------------------------
CodecInit == /\ cside \in {"data", "code"}
             /\ data = <<>> /\ freq = [i \in 1..NumOfCode |-> 0]

CodecNext ==
    \/ /\ cside = "data" /\ Len(data) < MaxLen
       /\ \E b \in Bytes : data' = Append(data, b)
       /\ UNCHANGED <<cside, freq>>
    \/ /\ cside = "code"
       /\ \E i \in 1..NumOfCode : freq[i] < MaxFreq /\ freq' = [freq EXCEPT ![i] = @ + 1]
       /\ UNCHANGED <<cside, data>>

CodecSpec == CodecInit /\ [][CodecNext]_codecVars

-----------------------------------------------------------------------------
(* What is encoded is decoded to the same bytes and fits the buffers       *)
(* allocated for it, where _decodeBlock writes three bytes whatever it     *)
(* keeps; hex strings are read back; the lines of a dump tile the data and *)
(* fit the line buffer.                                                    *)
DataRoundTrips ==
    LET n == Len(data)
        e == EncodeBase64(data)
        room == HeaderLen + 4 * LineLen + 3
    IN cside = "data" =>
       /\ DecodeBase64(e) = data
       /\ Len(e) + 1 <= EncodeSize(n)
       /\ n + 3 <= DecodeSize(Len(e))
       /\ ConvertStringToHex(ConvertHexToString(data, 2 * n + 1), n) = data
       /\ \A sStr \in 1..(2 * n + 3) : Len(ConvertHexToString(data, sStr)) <= sStr
       /\ \A offset \in 0..(n - 1), w \in {3, 5} : \A sStr \in (HeaderLen + w)..room :
             LET k == ConvertDataToString(n, offset, sStr, w)
             IN k > 0 /\ HeaderLen + w * k <= sStr /\ offset + k <= n
       /\ FoldSeq(LAMBDA l, s : s + l.bytes, 0, DumpLines(n, 0)) = n
       /\ \A l \in ToSet(DumpLines(n, 0)) : l.len + 1 <= room

(* Both codes of two or more symbols are prefix codes of the symbols that  *)
(* occur, as short as any; the canonical one keeps the lengths.            *)
IsPrefixCode(codes) == \A c, d \in codes : c # d => ~IsPrefix(c[2], d[2])
Cost(len) == FoldSeq(LAMBDA i, s : s + freq[i] * len[i], 0, [i \in 1..NumOfCode |-> i])
Kraft(len, used) == FoldSet(LAMBDA i, s : s + Power2(NumOfCode - len[i]), 0, used) <= Power2(NumOfCode)

CodesOptimal ==
    LET used == {i \in 1..NumOfCode : freq[i] > 0}
        codes == GenHuffmanCode(CHOOSE r \in BuildHuffmanTree(Leaves) : TRUE, <<>>)
        len == CodeLengths(codes)
        canonical == GenCanonicalCode(len)
    IN cside = "code" =>
       /\ (BuildHuffmanTree(Leaves) = {}) = (used = {})
       /\ used # {} => /\ {c[1] : c \in canonical} = used
                       /\ IsPrefixCode(codes) /\ IsPrefixCode(canonical)
                       /\ \A c \in canonical : Len(c[2]) = len[c[1]]
       /\ \A other \in [used -> 1..(NumOfCode - 1)] :
             used # {} /\ Kraft(other, used) =>
                Cost(len) <= Cost([i \in 1..NumOfCode |-> IF i \in used THEN other[i] ELSE 0])

(* The hex string and its terminator fit the length given for it.          *)
(* VIOLATED: a terminator is written behind an even length that is used up.*)
HexStringFits ==
    \A sStr \in 1..(2 * Len(data)) : Len(ConvertHexToString(data, sStr)) + 1 <= sStr
=============================================================================
