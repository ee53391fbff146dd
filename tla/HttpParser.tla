----------------------------- MODULE HttpParser -----------------------------
(***************************************************************************)
(* Receiving an HTTP packet piece by piece: httpparser/dataobject.c and    *)
(* chunkprocessor.c, fed by an async socket (network/asocket.c), which     *)
(* moves unconsumed bytes to the start of its buffer, or by                *)
(* jf_webclient_transferData (webclient/transfer.c), which does not.       *)
(*                                                                         *)
(* A byte is a record [c, n]: c tells carriage returns, line feeds, digits *)
(* (of value n) and other bytes apart, n is the place of a body byte.  The *)
(* packets are well formed; the header's text is abstracted to its length  *)
(* and to the framing it announces (HttpText parses the text).             *)
(***************************************************************************)
EXTENDS Integers, Sequences

CONSTANTS
    Packets,        \* records [framing, header, body, chunks]
    Readers,        \* a subset of {"asocket", "transfer"}
    BufSizes,       \* sizes of the reader's buffer, and of the data object's
    NoBody

VARIABLES
    pkt, reader, size,      \* the packet received, by whom, into what size
    sent,                   \* how many of its bytes have arrived
    buf, begin,             \* the reader's buffer up to its end pointer
    dobj,                   \* the data object
    err,                    \* what processing returned
    got                     \* the body of the full packet, once there is one

vars == <<pkt, reader, size, sent, buf, begin, dobj, err, got>>

(* The packet on the wire *************************************************)

Byte(c, n) == [c |-> c, n |-> n]
CRLF == <<Byte("CR", 0), Byte("LF", 0)>>

Body(p) == [i \in 1 .. Len(p.body) |-> Byte(p.body[i], i)]

Chunks(p) ==
    LET At[i \in 0 .. Len(p.chunks)] == IF i = 0 THEN 0 ELSE At[i - 1] + p.chunks[i]
        Wire[i \in 0 .. Len(p.chunks)] ==
           IF i = 0 THEN <<>>
           ELSE Wire[i - 1] \o <<Byte("digit", p.chunks[i])>> \o CRLF
                  \o SubSeq(Body(p), At[i - 1] + 1, At[i]) \o CRLF
    IN  Wire[Len(p.chunks)] \o <<Byte("digit", 0)>> \o CRLF \o CRLF

Stream(p) ==
    [i \in 1 .. p.header |-> Byte("h", 0)] \o CRLF \o CRLF
        \o (IF p.framing = "chunked" THEN Chunks(p) ELSE Body(p))

(* chunkprocessor.c: the processor c, the bytes s not yet consumed ********)

CreateChunkProcessor(mallocSize) ==
    [flag |-> "START", buf |-> <<>>, left |-> 0, malloc |-> mallocSize]

IsCRLF(s, i) == i + 1 <= Len(s) /\ s[i].c = "CR" /\ s[i + 1].c = "LF"

\* A step of the loop: the processor, the bytes used, and what it returns.
Step(c, n, r) == [c |-> c, used |-> n, ret |-> r]
Incomplete(c) == Step(c, 0, "incomplete")

Hex(s) ==
    LET V[i \in 0 .. Len(s)] == IF i = 0 THEN 0 ELSE 16 * V[i - 1] + s[i].n IN V[Len(s)]

\* _processStartChunkInHttpParser: the loop wants a byte after the line's CRLF,
\* and a size that is no number waits like one that is not there.
StartChunk(c, s) ==
    LET ends == {i \in 3 .. Len(s) - 1 : IsCRLF(s, i - 1)}
        e == CHOOSE i \in ends : \A j \in ends : i <= j
        n == Hex(SubSeq(s, 1, e - 2))
    IN  IF ends = {} \/ \E i \in 1 .. e - 2 : s[i].c # "digit" THEN Incomplete(c)
        ELSE Step([c EXCEPT !.left = n, !.flag = IF n = 0 THEN "FOOTER" ELSE "DATA"], e, "ok")

\* _processEndChunkInHttpParser
EndChunk(c, s) ==
    IF Len(s) >= 2 THEN Step([c EXCEPT !.flag = "START"], 2, "ok") ELSE Incomplete(c)

\* Mutant: a part of a chunk replaces the part before it.
DataChunkOverwrites(c, s) ==
    LET n == IF Len(s) >= c.left THEN c.left ELSE Len(s)
    IN  Step([flag |-> IF Len(s) >= c.left THEN "END" ELSE "DATA", buf |-> SubSeq(s, 1, n),
              left |-> c.left - n, malloc |-> c.malloc + Len(s)], n, "ok")

\* _processDataChunkInHttpParser, with its reallocation.
DataChunk(c, s) ==
    LET all == Len(s) >= c.left
        n == IF all THEN c.left ELSE Len(s)
        malloc == IF Len(c.buf) + Len(s) > c.malloc THEN c.malloc + Len(s) ELSE c.malloc
    IN  Step([flag |-> IF all THEN "END" ELSE "DATA", buf |-> c.buf \o SubSeq(s, 1, n),
              left |-> c.left - n, malloc |-> malloc], n, "ok")

\* _processFooterChunkInHttpParser
FooterChunk(c, s) ==
    IF Len(s) < 2 THEN Incomplete(c)
    ELSE IF IsCRLF(s, 1) THEN Step(c, 2, "body") ELSE Step(c, 0, "corrupted")

ChunkStep(c, s) ==
    CASE c.flag = "START"  -> StartChunk(c, s)
      [] c.flag = "END"    -> EndChunk(c, s)
      [] c.flag = "DATA"   -> DataChunk(c, s)
      [] c.flag = "FOOTER" -> FooterChunk(c, s)

\* jf_httpparser_processChunk: until the bytes are used up or a step says no.
RECURSIVE ProcessChunk(_, _, _, _)
ProcessChunk(c, s, used, body) ==
    IF used >= Len(s) THEN [c |-> c, used |-> used, body |-> body, err |-> FALSE]
    ELSE LET r == ChunkStep(c, SubSeq(s, used + 1, Len(s)))
         IN  IF r.ret \in {"incomplete", "corrupted"}
             THEN [c |-> r.c, used |-> used, body |-> body, err |-> r.ret = "corrupted"]
             ELSE ProcessChunk(r.c, s, used + r.used, IF r.ret = "body" THEN r.c.buf ELSE body)

(* dataobject.c: a result is the data object, the begin pointer, an error **)

\* jf_httpparser_createtDataobject and jf_httpparser_reinitDataobject.
ReinitDataobject ==
    [fin |-> FALSE, chunked |-> FALSE, full |-> FALSE, left |-> 0, inBuf |-> TRUE,
     bodyBuf |-> <<>>, chunk |-> CreateChunkProcessor(0), body |-> NoBody]

Result(d, b, e) == [d |-> d, begin |-> b, err |-> e]

\* jf_httpparser_findHeader: the lengths of the headers s may hold from offset b.
FindHeader(s, b) ==
    {k \in 0 .. Len(s) - b - 4 : IsCRLF(s, b + k + 1) /\ IsCRLF(s, b + k + 3)}

\* The chunked part of _parseBodyInHpDo and jf_httpparser_processDataobject.
AfterChunks(d, b, r) ==
    Result([d EXCEPT !.chunk = r.c, !.body = r.body, !.full = r.body # NoBody], b + r.used, r.err)

Chunked(d, s, b) == AfterChunks(d, b, ProcessChunk(d.chunk, SubSeq(s, b + 1, Len(s)), 0, NoBody))

\* _parseBodyInHpDo, k bytes of header before the empty line.
ParseBody(d, s, b, k) ==
    IF d.chunked THEN Chunked(d, s, k + 4)
    ELSE IF Len(s) - b - (k + 4) >= d.left
    THEN Result([d EXCEPT !.body = SubSeq(s, k + 5, k + 4 + d.left), !.full = TRUE],
                b + k + 4 + d.left, FALSE)
    ELSE Result([d EXCEPT !.inBuf = d.left <= size], k + 4, FALSE)

\* _parseHeaderInHpDo and _parseHeaderContentInHpDo: a header that announces no
\* length is an error, and the header counts as received all the same.
ParseHeader(d, s, b, k) ==
    LET h == [d EXCEPT !.fin = TRUE, !.full = FALSE, !.chunked = FALSE, !.left = -1]
    IN  CASE pkt.framing = "none"    -> Result(h, b, TRUE)
          [] pkt.framing = "chunked" ->
                ParseBody([h EXCEPT !.chunked = TRUE, !.chunk = CreateChunkProcessor(size)], s, b, k)
          [] pkt.framing = "length"  ->
                IF pkt.body = <<>>
                THEN Result([h EXCEPT !.left = 0, !.full = TRUE, !.body = <<>>], b + k + 4, FALSE)
                ELSE ParseBody([h EXCEPT !.left = Len(pkt.body)], s, b, k)

\* _processNonChunkedBodyInHpDo: the body stays in the reader's buffer if that can
\* hold it, and is copied out of it otherwise.
NonChunkedBody(d, s, b) ==
    LET need == d.left - Len(d.bodyBuf)
        n == IF Len(s) - b >= need THEN need ELSE Len(s) - b
        all == d.bodyBuf \o SubSeq(s, b + 1, b + n)
    IN  IF d.inBuf /\ n < need THEN Result(d, b, FALSE)
        ELSE IF n < need THEN Result([d EXCEPT !.bodyBuf = all], b + n, FALSE)
        ELSE Result([d EXCEPT !.body = all, !.full = TRUE], b + n, FALSE)

\* jf_httpparser_processDataobject: a header that is not complete is an error.
ProcessDataobject(d, s, b) ==
    LET ks == FindHeader(s, b)
    IN  IF d.fin THEN IF d.chunked THEN Chunked(d, s, b) ELSE NonChunkedBody(d, s, b)
        ELSE IF ks = {} THEN Result(d, b, TRUE)
        ELSE ParseHeader(d, s, b, CHOOSE k \in ks : \A j \in ks : k <= j)

(* The readers ************************************************************)

Init ==
    /\ pkt \in Packets /\ reader \in Readers /\ size \in BufSizes
    /\ sent = 0 /\ buf = <<>> /\ begin = 0
    /\ dobj = ReinitDataobject
    /\ err = FALSE /\ got = NoBody

Room == size - Len(buf)

\* What a reader does with the bytes s up to its end pointer: _processAsocket with
\* the data callback of the web client ...
AsocketKeeps(r, s) ==
    IF r.begin = Len(s) THEN <<<<>>, 0>>
    ELSE IF r.begin # 0 THEN <<SubSeq(s, r.begin + 1, Len(s)), 0>>
    ELSE IF Len(s) = size THEN <<<<>>, 0>>
    ELSE <<s, 0>>

\* ... and a turn of _recvDataFromHttpServer.
TransferKeeps(r, s) == IF ~r.err /\ r.begin = Len(s) THEN <<<<>>, 0>> ELSE <<s, r.begin>>

\* n bytes arrive and are processed; a full packet is passed up and the data object
\* made ready for the next one.  An async socket does not look at what its callback
\* returns and goes on, a transfer ends with an error.
Receive(n) ==
    /\ got = NoBody /\ (reader = "transfer" => ~err)
    /\ n <= Room /\ sent + n <= Len(Stream(pkt))
    /\ sent' = sent + n
    /\ \E s \in {buf \o SubSeq(Stream(pkt), sent + 1, sent + n)} :
       \E r \in {ProcessDataobject(dobj, s, begin)} :
       \E k \in {IF reader = "asocket" THEN AsocketKeeps(r, s) ELSE TransferKeeps(r, s)} :
           /\ buf' = k[1] /\ begin' = k[2]
           /\ err' = r.err
           /\ got' = IF r.d.full /\ ~r.err THEN r.d.body ELSE NoBody
           /\ dobj' = IF r.d.full /\ ~r.err THEN ReinitDataobject ELSE r.d
    /\ UNCHANGED <<pkt, reader, size>>

Next == \E n \in 1 .. Len(Stream(pkt)) : Receive(n)

Spec == Init /\ [][Next]_vars

\* The counters of the data object and of its chunk processor stay in their ranges;
\* the assertion of _processDataChunkInHttpParser is the last conjunct.
TypeOK ==
    /\ sent \in 0 .. Len(Stream(pkt))
    /\ begin \in 0 .. Len(buf) /\ Len(buf) <= size
    /\ dobj.left >= -1 /\ dobj.chunk.left >= 0
    /\ Len(dobj.chunk.buf) <= dobj.chunk.malloc \/ ~dobj.chunked

\* However the packet is cut into pieces, whichever way its body is framed and
\* buffered, the body passed up is the body sent.
BodyExact == got # NoBody => got = Body(pkt)

\* The parser finds fault with no packet, but one that announces no length and one of
\* which it has not seen the whole header (CutHeaderWaits).  A packet whose last byte
\* has been processed has been passed up (the parser waits for no byte after it), and
\* until then the reader's buffer has room: recv with no
\* room returns 0, which both readers take for the end of the connection.  An async
\* socket throws away a header that fills its buffer; a transfer never moves what it
\* has left, so its buffer has to hold the packet as it is sent.
Finishes ==
    /\ err /\ pkt.header + 4 <= size => pkt.framing = "none" \/ sent < pkt.header + 4
    /\ (/\ sent = Len(Stream(pkt)) \/ Room = 0
        /\ pkt.framing # "none"
        /\ IF reader = "asocket" THEN pkt.header + 4 < size ELSE Len(Stream(pkt)) <= size)
           => got # NoBody

\* "This request has no body": a packet whose header announces no length is full as
\* it stands.  Not so: the length that is not found is returned as an error.
NoBodyIsFull == pkt.framing = "none" /\ dobj.fin => ~err

\* "Loop until full packet is received or error": a transfer whose first piece ends
\* inside the header waits for the rest.  Not so: the header that is not found is the
\* error that ends the loop.
CutHeaderWaits == reader = "transfer" /\ sent < pkt.header + 4 => ~err

=============================================================================
