------------------------------- MODULE MCData -------------------------------
(***************************************************************************)
(* The parts that read, write, convert and store data, one by one: HTTP    *)
(* and XML parsing, strings, encodings, hashes and ciphers, dates, uuids,  *)
(* the command line, persistency and archives.  They share no state here:  *)
(* a behaviour is one of one of them, which part names, and v1, v2, ... are *)
(* the variables of that one.                                              *)
(***************************************************************************)
EXTENDS Integers, Sequences, TLC

CONSTANT None             \* no body

VARIABLES
    part, \* the component, for a whole behaviour
    v1, v2, v3, v4, v5, v6, v7, v8, v9, v10, v11, v12, v13, v14
                        \* its variables, in the order of its module

state == <<part, v1, v2, v3, v4, v5, v6, v7, v8, v9, v10, v11, v12, v13, v14>>

\* HTTP packets: how the length of the body is told, the length of the header, the
\* body and the lengths of its chunks.
Packet(f, h, b, c) == [framing |-> f, header |-> h, body |-> b, chunks |-> c]
Packets ==
    LET Repeat(x, n) == [i \in 1..n |-> x]
        End == <<"CR", "LF", "CR", "LF">>
    IN  {Packet("length", 2, <<>>, <<>>), Packet("length", 2, <<"x">>, <<>>),
         Packet("length", 2, <<"x">> \o End, <<>>), Packet("length", 1, Repeat("x", 9), <<>>),
         Packet("none", 2, <<>>, <<>>), Packet("chunked", 2, <<>>, <<>>),
         Packet("chunked", 1, <<"x", "CR", "LF">>, <<1, 2>>),
         Packet("chunked", 2, End \o <<"x">>, <<5>>),
         Packet("chunked", 2, <<"x", "digit", "CR", "LF">> \o Repeat("x", 5), <<7, 2>>)}

\* Short texts over the characters that the parsers tell apart, and a few long ones.
UpTo(n, S) == UNION {[1..k -> S] : k \in 0..n}
Texts ==
    UpTo(3, {"a", " ", ",", "="}) \cup UpTo(3, {"a", ",", "\"", "'"})
    \cup UpTo(3, {"1", "2", "~", ","})
    \cup {<<"a", "=", "1", ",", "a", "b", "=", "c", ",", "a", " ", "=", " ", "d">>,
          <<"a", "b", "=", "1", ",", "a", "=", "x">>,
          <<" ", "a", " ", " ", " ", "b", " ", "#", "c", "=", "=">>}
Needles == {[needle |-> <<"a">>, subst |-> <<"b", "a">>], [needle |-> <<",", "a">>, subst |-> <<"b">>]}
\* Sizes around the units 8, 64, 512 and 4096, and around ten characters.
FileSizes == {0, 1, 2, 7, 8, 9, 15, 16, 63, 64, 65, 509, 510, 511, 512, 1000, 4075, 4095, 4096,
              4097, 409599999, 409600000, 409602048, 500000000, 2000000000}

\* What a document is made of.
Attr(p, n, v) == [prefix |-> p, name |-> n, value |-> v]
XmlItem(k, n, a) == [k |-> k, name |-> n, attrs |-> a]
Attributes ==
    <<Attr(<<"p">>, <<"n">>, <<" ", "=", ":">>), Attr(<<"p", "q", "r">>, <<"n">>, <<"v", "w">>)>>
XmlItems ==
    {XmlItem("start", "a", Attributes)}
    \cup {XmlItem(k, n, <<>>) : <<k, n>> \in
            {<<"start", "b">>, <<"end", "a">>, <<"end", "b">>,
             <<"empty", "b">>, <<"comment", "">>, <<"char", "x">>, <<"cut", "">>}}

\* Dates to start at, with their day numbers and days of the week: the epoch, before a
\* leap day, before a century, and near the end.
Starts ==
    {[date |-> <<1970, 1, 1>>, days |-> 1, week |-> 4],
     [date |-> <<1972, 2, 20>>, days |-> 781, week |-> 0],
     [date |-> <<1999, 12, 25>>, days |-> 10951, week |-> 6],
     [date |-> <<2037, 12, 1>>, days |-> 24807, week |-> 2]}
\* The fields of a date string: digits, 10 for a sign and 11 for any other character.
DateFields ==
    {<<>>, <<0>>, <<2>>, <<6, 0>>, <<2, 9>>, <<3, 1>>, <<2, 0, 0, 4>>, <<1, 9, 7, 0, 1>>,
     <<2, 0, 3, 8>>, <<10, 1>>, <<1, 11>>, <<1, 2, 3>>, <<11, 1>>}

\* What a configuration file gives back for a value: what follows a # is a comment.
StoredValues == {"", "a", "b#", "long", "q'"}
AsRead == [v \in StoredValues \cup {"b", "junk"} |-> IF v = "b#" THEN "b" ELSE v]

\* What the header of a member keeps of its name; a long name has a block of its own.
Kept == [a |-> "a", b |-> "b"]
Contents == {[size |-> n, actual |-> n] : n \in {0, 3, 5}} \cup {[size |-> 3, actual |-> 4]}

-----------------------------------------------------------------------------

Hp == INSTANCE HttpParser WITH
    Readers <- {"asocket", "transfer"}, BufSizes <- {5, 7, 8, 12}, NoBody <- None,
    pkt <- v1, reader <- v2, size <- v3, sent <- v4, buf <- v5, begin <- v6, dobj <- v7,
    err <- v8, got <- v9

St == INSTANCE Strings WITH
    Widths <- {2, 4}, BufSize <- 15, Kilo <- 8, NUnits <- 4, Sizes <- FileSizes,
    text <- v1, last <- v2

Ht == INSTANCE HttpText WITH
    Versions <- {<<"1", ".", "1">>},
    Statuses <- {<<>>, <<"O", "K">>, <<"N", "o", " ", "x">>},
    Objects <- {<<"/">>, <<"/", "a", "/">>},
    FieldNames <- {<<"a">>, <<"a", "b">>, <<"l">>},
    FieldValues <- {<<"1", "2">>, <<" ", "x", " ", "y", " ">>, <<":">>, <<" ">>},
    Bodies <- {<<>>, <<"x">>, <<"\r", "\n", "\r", "\n", "y">>}, MaxFields <- 2,
    Hosts <- {<<"h">>, <<"h", ".", "x">>}, Ports <- {<<"8", "1">>, <<"0">>},
    Paths <- {<<>>, <<"/">>, <<"/", "a", ":", "b", "/", "/">>},
    Codes <- {32, 37, 47, 65, 91, 95, 122, 128, 255}, MaxCodes <- 2, packet <- v1

Xm == INSTANCE Xml WITH
    Items <- XmlItems, MaxItems <- 5, doc <- v1, tree <- v2

Co == INSTANCE Codec WITH
    Bytes <- {0, 77, 178, 255}, MaxLen <- 5, NumOfCode <- 4, MaxFreq <- 3,
    HeaderLen <- 11, LineLen <- 2, cside <- v1, data <- v2, freq <- v3

Cr == INSTANCE Crypto WITH
    BlockSize <- 4, LenSize <- 2, WordSize <- 64, Parts <- {1, 2, 3, 5, 9},
    MaxMsg <- 14, AesBlock <- 2, Transfer <- 4, SizeSpan <- 20, PoolMax <- 12, Digest <- 4,
    Needed <- 3, OwnSeeds <- <<1, 2, 1>>, GetLens <- {1, 3, 4}, Devices <- 2, MaxInits <- 3,
    pside <- v1, msg <- v2, md5 <- v3, sha1 <- v4, pool <- v5, inits <- v6

Ca == INSTANCE Calendar WITH
    MaxDays <- 100, SecStep <- 61, Fields <- DateFields, kside <- v1, date <- v2,
    days <- v3, week <- v4, gone <- v5, sec <- v6, fields <- v7

Uu == INSTANCE Uuid WITH
    PerTick <- 1, ClockSeqs <- 5, HashedSeq <- 3, MacKnown <- TRUE, MaxTick <- 2,
    MaxIds <- 4, MaxBack <- 1, MaxInits <- 1, now <- v1, back <- v2, gen <- v3,
    ids <- v4, made <- v5

Cl == INSTANCE Clieng WITH
    Chars <- {"a", "b"}, ScriptChars <- {"a", " ", "\"", "#", "|", "m"}, MaxScript <- 5,
    MaxLine <- 2, HistSize <- 2, MaxArgc <- 3, Commands <- {<<"a">>, <<"q">>},
    MaxKeys <- 8, MaxHist <- 4, ScreenRows <- 4, U8 <- 8, MaxOut <- 9,
    CaptionLens <- {2, 3}, side <- v1, ed <- v2, ideal <- v3, hist <- v4, past <- v5,
    recall <- v6, args <- v7, stopped <- v8, typed <- v9, more <- v10, shown <- v11,
    col <- v12, keybuf <- v13, keys <- v14

Pe == INSTANCE Persistency WITH
    StoreKeys <- {"k1", "k2"}, Values <- StoredValues, Empty <- "", Quoted <- {"q'"},
    Long <- {"long"}, Shortened <- "lon", Junk <- "junk", FreshFlags <- {FALSE, TRUE},
    MaxCommands <- 5, backend <- v1, started <- v2, conf <- v3, temp <- v4, tree <- v5,
    db <- v6, txn <- v7, other <- v8, at <- v9, want <- v10, pend <- v11, ghost <- v12

Ar == INSTANCE Archive WITH
    Names <- {"a", "b", "long"}, LongNames <- {"long"}, BlockSize <- 2, BufLen <- 4,
    Types <- {"dir", "regular"}, DepthNull <- 3, MaxMembers <- 4,
    U32Span <- 6,
    phase <- v1, members <- v2, headers <- v3, saved <- v4, file <- v5, buf <- v6,
    listing <- v7, rd <- v8, out <- v9, ret <- v10

-----------------------------------------------------------------------------
\* The component has the first n variables only.
Only(n) ==
    /\ IF n < 2 THEN v2 = 0 ELSE TRUE
    /\ IF n < 3 THEN v3 = 0 ELSE TRUE
    /\ IF n < 4 THEN v4 = 0 ELSE TRUE
    /\ IF n < 5 THEN v5 = 0 ELSE TRUE
    /\ IF n < 6 THEN v6 = 0 ELSE TRUE
    /\ IF n < 7 THEN v7 = 0 ELSE TRUE
    /\ IF n < 8 THEN v8 = 0 ELSE TRUE
    /\ IF n < 9 THEN v9 = 0 ELSE TRUE
    /\ IF n < 10 THEN v10 = 0 ELSE TRUE
    /\ IF n < 11 THEN v11 = 0 ELSE TRUE
    /\ IF n < 12 THEN v12 = 0 ELSE TRUE
    /\ IF n < 13 THEN v13 = 0 ELSE TRUE
    /\ IF n < 14 THEN v14 = 0 ELSE TRUE

MCInit ==
    \/ part = "parser" /\ Hp!Init /\ Only(9)
    \/ part = "strings" /\ St!Init /\ Only(2)
    \/ part = "http" /\ Ht!Init /\ Only(1)
    \/ part = "xml" /\ Xm!XmlInit /\ Only(2)
    \/ part = "codec" /\ Co!CodecInit /\ Only(3)
    \/ part = "crypto" /\ Cr!CryptoInit /\ Only(6)
    \/ part = "calendar" /\ Ca!CalInit /\ Only(7)
    \/ part = "uuid" /\ Uu!UuidInit /\ Only(5)
    \/ part = "clieng" /\ Cl!CliengInit
    \/ part = "persistency" /\ Pe!PersInit /\ Only(12)
    \/ part = "archive" /\ Ar!ArInit /\ Only(10)

\* The variables that a component with so many variables does not have.
after1 == <<v2, v3, v4, v5, v6, v7, v8, v9, v10, v11, v12, v13, v14>>
after2 == <<v3, v4, v5, v6, v7, v8, v9, v10, v11, v12, v13, v14>>
after3 == <<v4, v5, v6, v7, v8, v9, v10, v11, v12, v13, v14>>
after5 == <<v6, v7, v8, v9, v10, v11, v12, v13, v14>>
after6 == <<v7, v8, v9, v10, v11, v12, v13, v14>>
after7 == <<v8, v9, v10, v11, v12, v13, v14>>
after9 == <<v10, v11, v12, v13, v14>>
after10 == <<v11, v12, v13, v14>>
after12 == <<v13, v14>>

MCNext ==
    \/ part = "parser" /\ Hp!Next /\ UNCHANGED <<part, after9>>
    \/ part = "strings" /\ St!Next /\ UNCHANGED <<part, after2>>
    \/ part = "http" /\ Ht!Next /\ UNCHANGED <<part, after1>>
    \/ part = "xml" /\ Xm!XmlNext /\ UNCHANGED <<part, after2>>
    \/ part = "codec" /\ Co!CodecNext /\ UNCHANGED <<part, after3>>
    \/ part = "crypto" /\ Cr!CryptoNext /\ UNCHANGED <<part, after6>>
    \/ part = "calendar" /\ Ca!CalNext /\ UNCHANGED <<part, after7>>
    \/ part = "uuid" /\ Uu!UuidNext /\ UNCHANGED <<part, after5>>
    \/ part = "clieng" /\ Cl!CliengNext /\ UNCHANGED part
    \/ part = "persistency" /\ Pe!PersNext /\ UNCHANGED <<part, after12>>
    \/ part = "archive" /\ Ar!ArNext /\ UNCHANGED <<part, after10>>

MCSpec == MCInit /\ [][MCNext]_state

-----------------------------------------------------------------------------
\* Whatever pieces an HTTP packet arrives in, the parser of the web client gives its
\* user the body once and whole, and notices the end (jf_httpparser, dataobject).
HttpParserExact == part = "parser" => Hp!TypeOK /\ Hp!BodyExact /\ Hp!Finishes

\* The string helpers agree with each other and stay in their buffers, and what the
\* HTTP helpers write they read back.
TextExact ==
    /\ part = "strings" =>
        St!TokensExact /\ St!SettingsFound /\ St!EditsInBounds /\ St!ScansAgree
    /\ part = "http" => Ht!WrittenParsesBack /\ Ht!RawPacketFits /\ Ht!EscapesAndUris

\* jf_xmlparser accepts a document exactly if its tags nest under one root, builds the
\* tree of its tags, attributes and text, and reads back the tree it wrote.
XmlExact == part = "xml" => Xm!XmlExact

\* What is encoded, compressed or enciphered comes back unchanged, the code of huffman
\* is optimal, a hash does not depend on how its input is cut, and the random pool is
\* written at its places or the byte reserved behind them and gives random data only
\* once the devices gave enough of it.
DataExact ==
    /\ part = "codec" => Co!DataRoundTrips /\ Co!CodesOptimal
    /\ part = "crypto" => Cr!HashesExact /\ Cr!CiphersRoundTrip /\ Cr!PoolSound

\* jf_date, jf_time: dates, day numbers, days of the week and strings agree; jf_uuid:
\* while the clock does not step back the time stamps do not decrease, and those of one
\* tick of the clock differ.
TimesExact ==
    /\ part = "calendar" => Ca!DatesExact /\ Ca!StringsExact
    /\ part = "uuid" => Uu!StampsSound

\* The command line engine: the line edited, its history, its arguments, the pager,
\* the columns of a table and the keys decoded are those of the keystrokes.
CliengExact ==
    part = "clieng" =>
        /\ Cl!ShellExact /\ Cl!ArgumentsExact /\ Cl!PagerKeepsPages
        /\ Cl!ColumnsAligned /\ Cl!KeysExact

\* jf_persistency: a value is read as it was set, and what a rollback or a failed commit
\* gave up is gone, in a configuration file as in SQLite.
StoreExact == part = "persistency" => Pe!StoreExact

\* jf_archive: the members are extracted in the order, the place and the length they
\* were archived with.
ArchiveExact == part = "archive" => Ar!ArchiveExact

=============================================================================
