------------------------------ MODULE HttpText ------------------------------
(***************************************************************************)
(* The text side of httpparser/httpparser.c: a packet header put together  *)
(* by the setters, written as a raw packet and parsed back; escaping; the  *)
(* parts of a URI.  Text is a sequence of characters, "H" standing for the *)
(* four of "HTTP"; the code of an escaped byte is a number.                *)
(***************************************************************************)
EXTENDS StringOps

CONSTANTS
    Versions, Statuses, Objects,    \* texts to put into a packet
    FieldNames, FieldValues, Bodies,
    MaxFields,                      \* how many header lines a packet gets
    Hosts, Ports, Paths,            \* of URIs
    Codes, MaxCodes                 \* bytes to escape, and how many

VARIABLE packet

CRLF == <<"\r", "\n">>
Codes200 == <<"2", "0", "0">>

\* jf_httpparser_createEmptyPacketHeader; a request has status code -1.
CreateEmptyPacketHeader ==
    [code |-> <<>>, status |-> <<>>, directive |-> <<>>, obj |-> <<>>,
     version |-> <<"1", ".", "0">>, fields |-> <<>>, body |-> <<>>]

Init == packet = CreateEmptyPacketHeader

\* jf_httpparser_setVersion
SetVersion(v) == packet' = [packet EXCEPT !.version = v]

\* jf_httpparser_setStatusCode
SetStatusCode(c, s) == packet' = [packet EXCEPT !.code = c, !.status = s]

\* jf_httpparser_setDirective
SetDirective(d, o) == packet' = [packet EXCEPT !.directive = d, !.obj = o]

\* jf_httpparser_setBody
SetBody(b) == packet' = [packet EXCEPT !.body = b]

\* jf_httpparser_addHeaderLine, at the end of the list.
AddHeaderLine(n, v) ==
    /\ Len(packet.fields) < MaxFields
    /\ packet' = [packet EXCEPT !.fields = Append(@, [name |-> n, data |-> v])]

\* jf_httpparser_clonePacketHeader copies field by field with the same setters.
ClonePacketHeader == packet' = [CreateEmptyPacketHeader EXCEPT
    !.directive = packet.directive, !.obj = packet.obj, !.code = packet.code,
    !.status = packet.status, !.version = packet.version, !.fields = packet.fields,
    !.body = packet.body]

Next ==
    \/ \E v \in Versions : SetVersion(v)
    \/ \E s \in Statuses : SetStatusCode(Codes200, s)
    \/ \E o \in Objects : SetDirective(<<"G">>, o)
    \/ \E b \in Bodies : SetBody(b)
    \/ \E n \in FieldNames, v \in FieldValues : AddHeaderLine(n, v)
    \/ ClonePacketHeader

Spec == Init /\ [][Next]_packet

(* Writing and parsing ****************************************************)

IsRequest(p) == p.code = <<>>

RawFields(fs) ==
    LET W[i \in 0 .. Len(fs)] ==
          IF i = 0 THEN <<>>
          ELSE W[i - 1] \o fs[i].name \o <<":", " ">> \o fs[i].data \o CRLF
    IN  W[Len(fs)]

\* jf_httpparser_getRawPacket: what it writes ...
GetRawPacket(p) ==
    (IF IsRequest(p) THEN p.directive \o <<" ">> \o p.obj \o <<" ", "H", "/">> \o p.version
     ELSE <<"H", "/">> \o p.version \o <<" ">> \o p.code \o <<" ">> \o p.status)
    \o CRLF \o RawFields(p.fields) \o CRLF \o p.body

WireLen(s) == Len(s) + 3 * Count(s, "H")

\* ... and the size of the buffer it allocates.
RawPacketSize(p) ==
    LET F[i \in 0 .. Len(p.fields)] ==
          IF i = 0 THEN 0 ELSE F[i - 1] + Len(p.fields[i].name) + Len(p.fields[i].data) + 4
    IN  (IF IsRequest(p) THEN Len(p.directive) + Len(p.obj) + 12
         ELSE 12 + Len(p.version) + Len(p.status)) + F[Len(p.fields)] + 3 + Len(p.body)

LastOf(ts) == ts[Len(ts)]

\* _parseHttpStartLine: what is after the second space of a response is its status.
ParseHttpStartLine(line) ==
    LET ts == Parse(line, <<" ">>)
    IN  IF Len(ts) < 3 THEN {}
        ELSE IF IsDelimiter(line, 1, <<"H", "/">>)
        THEN {[CreateEmptyPacketHeader EXCEPT
                 !.version = LastOf(Parse(ts[1], <<"/">>)), !.code = ts[2],
                 !.status = Join(SubSeq(ts, 3, Len(ts)), <<" ">>)]}
        ELSE {[CreateEmptyPacketHeader EXCEPT
                 !.directive = ts[1], !.obj = ts[2],
                 !.version = LastOf(Parse(LastOf(ts), <<"/">>))]}

\* The white space processing of _parseHttpHeaderLine: a value of spaces only stays.
TrimValue(s) == IF Chars(s) \subseteq {" "} THEN s ELSE SkipBlank(s)

\* _parseHttpHeaderLine, line after line until an empty one.
RECURSIVE ParseHttpHeaderLine(_, _)
ParseHttpHeaderLine(lines, fields) ==
    IF lines = <<>> \/ lines[1] = <<>> THEN {fields}
    ELSE LET colon == LocateSubString(lines[1], <<":">>)
             i == CHOOSE j \in colon : TRUE
         IN  IF colon \subseteq {1} THEN {}
             ELSE ParseHttpHeaderLine(Tail(lines),
                    Append(fields, [name |-> SubSeq(lines[1], 1, i - 1),
                                    data |-> TrimValue(SubSeq(lines[1], i + 1, Len(lines[1])))]))

\* jf_httpparser_parsePacketHeader
ParsePacketHeader(s) ==
    LET lines == Parse(s, CRLF)
    IN  {[p EXCEPT !.fields = fs] :
            p \in ParseHttpStartLine(lines[1]), fs \in ParseHttpHeaderLine(Tail(lines), <<>>)}

\* jf_httpparser_getHeaderLine: the first field whose name starts with `name'.
GetHeaderLine(p, name) ==
    LET n == {i \in 1 .. Len(p.fields) : IsDelimiter(p.fields[i].name, 1, name)}
    IN  {p.fields[i] : i \in {j \in n : \A k \in n : j <= k}}

\* jf_httpparser_parseHeaderContentLength, parseHeaderTransferEncoding
ParseHeaderContentLength(p, name) ==
    UNION {ScanFromString(f.data, 99999) : f \in GetHeaderLine(p, name)}

\* jf_httpparser_findHeader
HeaderLength(s) == LocateSubString(s, CRLF \o CRLF)

(* Escaping: bytes as codes, '%' is 37 ************************************)

Allowed(c) ==
    \/ c \in 63 .. 90 \/ c \in 97 .. 122 \/ c \in 47 .. 57
    \/ c \in {59, 61, 43, 36, 45, 95, 46, 42}

HexDigit(n) == IF n < 10 THEN 48 + n ELSE 55 + n
HexValue(c) == IF c < 58 THEN c - 48 ELSE c - 55

\* jf_httpparser_escapeHttpData
EscapeHttpData(s) ==
    LET E[i \in 0 .. Len(s)] ==
          IF i = 0 THEN <<>>
          ELSE E[i - 1] \o (IF Allowed(s[i]) THEN <<s[i]>>
                            ELSE <<37, HexDigit(s[i] \div 16), HexDigit(s[i] % 16)>>)
    IN  E[Len(s)]

\* jf_httpparser_getHttpEscapeDataLen, the null terminator counted.
GetHttpEscapeDataLen(s) ==
    LET N[i \in 0 .. Len(s)] == IF i = 0 THEN 0 ELSE N[i - 1] + (IF Allowed(s[i]) THEN 1 ELSE 3)
    IN  N[Len(s)] + 1

\* jf_httpparser_unescapeHttpData
RECURSIVE UnescapeHttpData(_)
UnescapeHttpData(s) ==
    IF s = <<>> THEN <<>>
    ELSE IF s[1] = 37
    THEN <<16 * HexValue(s[2]) + HexValue(s[3])>> \o UnescapeHttpData(SubSeq(s, 4, Len(s)))
    ELSE <<s[1]>> \o UnescapeHttpData(Tail(s))

\* jf_httpparser_parseUri: host, port (80 if there is none) and the path from its slash.
ParseUri(s) ==
    LET parts == Parse(s, <<":", "/", "/">>)
        rest == LastOf(parts)
        addr == Parse(rest, <<"/">>)[1]
        ap == Parse(addr, <<":">>)
        port == IF Len(ap) = 1 THEN {80} ELSE ScanFromString(LastOf(ap), 65535)
    IN  IF Len(parts) < 2 THEN {}
        ELSE {[host |-> ap[1], port |-> n, path |-> SubSeq(rest, Len(addr) + 1, Len(rest))] :
                n \in port}

(* Properties *************************************************************)

\* A packet written out is found whole by the receiving side and parses back into the
\* packet: the start line, every header line with its spaces trimmed, the header's
\* end where the body begins.  (A value of spaces only does not come back, and an
\* object must have no space in it.)  A header line added last is found by its name.
WrittenParsesBack ==
    LET raw == GetRawPacket(packet)
        trimmed == [i \in DOMAIN packet.fields |->
                      [packet.fields[i] EXCEPT !.data = TrimValue(@)]]
        back == IF IsRequest(packet) THEN [packet EXCEPT !.fields = trimmed, !.body = <<>>, !.status = <<>>]
                ELSE [packet EXCEPT !.fields = trimmed, !.body = <<>>, !.directive = <<>>, !.obj = <<>>]
        blank == \E i \in DOMAIN packet.fields : Chars(packet.fields[i].data) \subseteq {" "}
    IN  /\ ~blank => ParsePacketHeader(raw) = {back}
        /\ \A k \in HeaderLength(raw) : SubSeq(raw, k + 4, Len(raw)) = packet.body
        /\ \A n \in FieldNames : (GetHeaderLine(packet, n) = {}) =
              (\A i \in DOMAIN packet.fields : ~IsDelimiter(packet.fields[i].name, 1, n))

\* The buffer of jf_httpparser_getRawPacket holds what is written and the null
\* terminator: "It will work as long as the version is not > 9.9".
RawPacketFits == WireLen(GetRawPacket(packet)) + 1 <= RawPacketSize(packet)

\* What is escaped unescapes to itself, in the space asked for; the parts of a URI
\* come back, unless its path holds another "://".
EscapesAndUris ==
    packet = CreateEmptyPacketHeader =>
      /\ \A n \in 0 .. MaxCodes : \A s \in [1 .. n -> Codes] :
            /\ UnescapeHttpData(EscapeHttpData(s)) = s
            /\ Len(EscapeHttpData(s)) + 1 = GetHttpEscapeDataLen(s)
      /\ \A h \in Hosts, p \in Ports, q \in Paths :
            /\ ParseUri(<<"H", ":", "/", "/">> \o h \o <<":">> \o p \o q)
                 = {[host |-> h, port |-> Number(p), path |-> q]}
            /\ ParseUri(<<"H", ":", "/", "/">> \o h \o q) = {[host |-> h, port |-> 80, path |-> q]}

=============================================================================
