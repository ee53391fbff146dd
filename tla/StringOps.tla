----------------------------- MODULE StringOps ------------------------------
(***************************************************************************)
(* The functions of the string library (string/*.c) and of jf_option.c     *)
(* that take a string apart, as operators.  A string is a sequence of      *)
(* characters, its null terminator left out; a function that can fail      *)
(* returns a set, empty when it fails.  Allocations succeed.               *)
(***************************************************************************)
EXTENDS Integers, Sequences

Digits == <<"0", "1", "2", "3", "4", "5", "6", "7", "8", "9">>
IsDigit(c) == \E i \in 1 .. 10 : Digits[i] = c
DigitValue(c) == (CHOOSE i \in 1 .. 10 : Digits[i] = c) - 1
Chars(s) == {s[i] : i \in 1 .. Len(s)}

(* parsestring.c **********************************************************)

\* _isDelimiter, at the i-th character of s.
IsDelimiter(s, i, d) == i + Len(d) - 1 <= Len(s) /\ SubSeq(s, i, i + Len(d) - 1) = d

RECURSIVE Tokens(_, _, _, _)

\* Mutant: an empty last token is dropped.
TokensDropLast(s, d, i, tok) ==
    IF i > Len(s) THEN IF tok = <<>> THEN <<>> ELSE <<tok>>
    ELSE IF IsDelimiter(s, i, d) THEN <<tok>> \o Tokens(s, d, i + Len(d), <<>>)
    ELSE Tokens(s, d, i + 1, Append(tok, s[i]))

\* The loop of jf_string_parse from the i-th character, `tok' read since the last
\* delimiter; the last token counts even if it is empty.
Tokens(s, d, i, tok) ==
    IF i > Len(s) THEN <<tok>>
    ELSE IF IsDelimiter(s, i, d) THEN <<tok>> \o Tokens(s, d, i + Len(d), <<>>)
    ELSE Tokens(s, d, i + 1, Append(tok, s[i]))

Parse(s, d) == Tokens(s, d, 1, <<>>)

\* The loop of jf_string_parseAdv: quote is the quotation mark of the text, once one
\* has been met (the other mark is no mark from then on); _isDelimiter is given the
\* first n characters only.
RECURSIVE AdvTokens(_, _, _, _, _, _, _)
AdvTokens(s, n, d, i, tok, quote, ignore) ==
    IF i > Len(s) THEN <<tok>>
    ELSE LET q == IF quote = "" /\ s[i] \in {"\"", "'"} THEN s[i] ELSE quote
             g == IF q # "" /\ s[i] = q THEN quote = "" \/ ~ignore ELSE ignore
         IN  IF ~g /\ IsDelimiter(SubSeq(s, 1, n), i, d)
             THEN <<tok>> \o AdvTokens(s, n, d, i + Len(d), <<>>, q, g)
             ELSE AdvTokens(s, n, d, i + 1, Append(tok, s[i]), q, g)

\* jf_string_parseAdv of the text after an offset: the size it is given does not
\* include the offset.
ParseAdvFrom(s, offset, d) == AdvTokens(s, Len(s) - offset, d, offset + 1, <<>>, "", FALSE)

ParseAdv(s, d) == ParseAdvFrom(s, 0, d)

\* jf_string_removeLeadingSpace, jf_option_skipSpaceBeforeString
RemoveLeadingSpace(s) ==
    LET n == {i \in 1 .. Len(s) : s[i] # " "}
    IN  IF n = {} THEN <<>> ELSE SubSeq(s, CHOOSE i \in n : \A j \in n : i <= j, Len(s))

\* jf_string_removeTailingSpace
RemoveTailingSpace(s) ==
    LET n == {i \in 1 .. Len(s) : s[i] # " "}
    IN  IF n = {} THEN <<>> ELSE SubSeq(s, 1, CHOOSE i \in n : \A j \in n : i >= j)

\* jf_string_skipBlank
SkipBlank(s) == RemoveTailingSpace(RemoveLeadingSpace(s))

\* jf_string_trimBlank: the loop that moves the rest of the text over a run of spaces.
RECURSIVE SqueezeFrom(_, _)
SqueezeFrom(s, i) ==
    LET run == {n \in 0 .. Len(s) - i + 1 : \A j \in i .. i + n - 1 : s[j] = " "}
        n == CHOOSE m \in run : \A k \in run : k <= m
    IN  IF i > Len(s) THEN s
        ELSE SqueezeFrom(IF n > 1 THEN SubSeq(s, 1, i) \o SubSeq(s, i + n, Len(s)) ELSE s, i + 1)

TrimBlank(s) == SqueezeFrom(RemoveTailingSpace(RemoveLeadingSpace(s)), 1)

\* jf_string_isBlankLine
IsBlankLine(s) == Chars(s) \subseteq {" ", "\t", "\n"}

\* jf_string_breakToLine: the loop from the i-th character.  The last space is the
\* first character of the text until a space is met, and stays where it was after
\* a break.
RECURSIVE BreakFrom(_, _, _, _, _)
BreakFrom(s, w, i, lastSpace, col) ==
    IF i > Len(s) THEN s
    ELSE LET l == IF s[i] = " " THEN i ELSE lastSpace
             t == IF col + 1 = w THEN [s EXCEPT ![l] = "\n"] ELSE s
             c == IF col + 1 = w \/ t[i] = "\n" THEN 0 ELSE col + 1
         IN  BreakFrom(t, w, i + 1, l, c)

BreakToLine(s, w) == BreakFrom(s, w, 1, 1, 0)

\* jf_string_locateSubString: where it starts.
LocateSubString(s, sub) ==
    LET n == {i \in 1 .. Len(s) : IsDelimiter(s, i, sub)}
    IN  {i \in n : \A j \in n : i <= j}

\* jf_string_filterComment
FilterComment(s, mark) ==
    IF LocateSubString(s, mark) = {} THEN s
    ELSE SubSeq(s, 1, (CHOOSE i \in LocateSubString(s, mark) : TRUE) - 1)

\* jf_string_replace: the first place, and not if the buffer cannot hold the result.
Replace(s, size, needle, subst) ==
    LET p == LocateSubString(s, needle) IN
    IF \/ needle = <<>> \/ subst = <<>> \/ p = {}
       \/ Len(subst) > Len(needle) /\ Len(subst) - Len(needle) + Len(s) >= size THEN s
    ELSE LET i == CHOOSE j \in p : TRUE
         IN  SubSeq(s, 1, i - 1) \o subst \o SubSeq(s, i + Len(needle), Len(s))

\* jf_string_duplicate and jf_string_duplicateWithLen: the copy of no characters is a
\* null pointer, without an error.
NullString == <<"NULL">>
DuplicateWithLen(s) == IF s = <<>> THEN NullString ELSE s

(* validatestring.c, jf_option.c, scanstring.c ****************************)

Letters == {"a", "b", "c", "d", "e", "f", "g", "x", "y", "z"}

ValidateStringAlias(s) ==
    /\ s = <<>> \/ s[1] # " "
    /\ \A c \in Chars(s) : IsDigit(c) \/ c \in Letters \cup {" ", "_"}

ValidateStringUsername(s) == \A c \in Chars(s) : IsDigit(c) \/ c \in Letters \cup {"_"}

ValidateHexString(s) == \A c \in Chars(s) : IsDigit(c) \/ c \in {"a", "b", "c", "d", "e", "f"}

\* jf_option_validateIntegerString, which accepts no character at all.
ValidateIntegerString(s) == \A c \in Chars(s) : IsDigit(c)

\* jf_option_validateFloatString: up to an `e', after which nothing is looked at.
ValidateFloatString(s) ==
    LET t == IF s # <<>> /\ s[1] = "-" THEN Tail(s) ELSE s
        es == {i \in 1 .. Len(t) : t[i] = "e"}
        m == IF es = {} THEN t ELSE SubSeq(t, 1, (CHOOSE i \in es : \A j \in es : i <= j) - 1)
        dots == {i \in 1 .. Len(m) : m[i] = "."}
    IN  /\ Len(s) >= 1
        /\ \A c \in Chars(m) : IsDigit(c) \/ c = "."
        /\ \A i, j \in dots : i = j

Number(s) ==
    LET V[i \in 0 .. Len(s)] == IF i = 0 THEN 0 ELSE 10 * V[i - 1] + DigitValue(s[i])
    IN  V[Len(s)]

\* jf_option_getS32FromString, U32, U16 and U8: scanf needs a digit, max is the type's
\* largest value that is looked at.
GetIntegerFromString(s, max) ==
    IF ValidateIntegerString(s) /\ s # <<>> /\ Number(s) <= max THEN {Number(s)} ELSE {}

\* jf_option_getLongFromString and its kin: strtol stops at the first character that
\* is no digit; no digit at all is 0.
GetLongFromString(s) ==
    IF s = <<>> THEN {0} ELSE IF ValidateIntegerString(s) THEN {Number(s)} ELSE {}

\* jf_string_getS32FromString and the other scans of scanstring.c copy the characters
\* and scan the copy, a null pointer too.
Crash == -1
ScanFromString(s, max) ==
    LET copy == DuplicateWithLen(s)
    IN  IF copy = NullString THEN {Crash} ELSE GetIntegerFromString(copy, max)

\* A piece of an id list: "m", "m~n"; scanf skips spaces before a number and does not
\* look at what follows the last one.
IdRange(s) ==
    LET t == RemoveLeadingSpace(s)
        ds == {i \in 0 .. Len(t) : \A j \in 1 .. i : IsDigit(t[j])}
        m == CHOOSE i \in ds : \A j \in ds : j <= i
        rest == RemoveLeadingSpace(SubSeq(t, m + 2, Len(t)))
        es == {i \in 0 .. Len(rest) : \A j \in 1 .. i : IsDigit(rest[j])}
        n == CHOOSE i \in es : \A j \in es : j <= i
        lo == Number(SubSeq(t, 1, m))
        hi == Number(SubSeq(rest, 1, n))
    IN  IF m = 0 THEN {}
        ELSE IF "~" \notin Chars(s) THEN {[lo |-> lo, hi |-> lo]}
        ELSE IF Len(t) > m /\ t[m + 1] = "~" /\ n > 0 /\ lo <= hi THEN {[lo |-> lo, hi |-> hi]}
        ELSE {}

\* jf_string_getIdListFromString: the ids, at most `room' of them.  A comma at the end
\* of the list is ignored.
GetIdListFromString(s, room) ==
    LET all == Parse(s, <<",">>)
        ps == IF Len(all) > 1 /\ all[Len(all)] = <<>> THEN SubSeq(all, 1, Len(all) - 1) ELSE all
        Ids[i \in 0 .. Len(ps)] ==
          IF i = 0 THEN <<>>
          ELSE LET r == CHOOSE x \in IdRange(ps[i]) : TRUE
               IN  Ids[i - 1] \o [k \in 1 .. r.hi - r.lo + 1 |-> r.lo + k - 1]
    IN  IF \/ \E c \in Chars(s) : ~IsDigit(c) /\ c \notin {"~", ",", " "}
           \/ \E i \in 1 .. Len(ps) : IdRange(ps[i]) = {}
        THEN {}
        ELSE {SubSeq(Ids[Len(ps)], 1, IF room < Len(Ids[Len(ps)]) THEN room ELSE Len(Ids[Len(ps)]))}

(* settingparse.c: settings "name = value", separated by commas ***********)

\* jf_string_processSettings: at most `room' settings of 3 characters and more; quotes
\* around the whole are dropped.
ProcessSettings(s, room) ==
    LET quoted == s # <<>> /\ s[1] = "\""
        body == IF quoted THEN SubSeq(s, 2, Len(s) - 1) ELSE s
        all == [i \in 1 .. Len(Parse(body, <<",">>)) |-> SkipBlank(Parse(body, <<",">>)[i])]
        some == SubSeq(all, 1, IF room < Len(all) THEN room ELSE Len(all))
    IN  IF \/ quoted /\ (s[Len(s)] # "\"" \/ Len(s) = 1)
           \/ \E i \in 1 .. Len(some) : Len(some[i]) < 3
        THEN {} ELSE {some}

\* jf_string_processSettingString: cut at the first equals sign.
ProcessSettingString(s) ==
    {[name |-> SubSeq(s, 1, i - 1), value |-> SubSeq(s, i + 1, Len(s))] :
        i \in LocateSubString(s, <<"=">>)}

\* jf_string_retrieveSettings with _trimSetting: the first setting whose name, up to
\* spaces, is `name'; an empty value and one too long for the buffer are errors.
RetrieveSettings(settings, name, room) ==
    LET Named(i) ==
          /\ IsDelimiter(settings[i], 1, name)
          /\ \E c \in ProcessSettingString(settings[i]) :
               /\ Len(c.name) >= Len(name)
               /\ Chars(SubSeq(c.name, Len(name) + 1, Len(c.name))) \subseteq {" "}
        found == {i \in 1 .. Len(settings) : Named(i)}
        first == CHOOSE i \in found : \A j \in found : i <= j
        value == SkipBlank((CHOOSE c \in ProcessSettingString(settings[first]) : TRUE).value)
    IN  IF found = {} THEN [err |-> "not found", value |-> <<>>]
        ELSE IF value = <<>> THEN [err |-> "empty", value |-> <<>>]
        ELSE IF Len(value) > room THEN [err |-> "too long", value |-> <<>>]
        ELSE [err |-> "none", value |-> value]

\* jf_string_validateSettings: the settings whose name is not one of names.
InvalidSettings(names, settings) ==
    {i \in 1 .. Len(settings) :
        ~\E c \in ProcessSettingString(settings[i]) : RemoveTailingSpace(c.name) \in names \ {<<>>}}

\* jf_string_getSettingsU32 and its kin: the default for a setting that is missing and
\* for one that is no number, which is an error as well.
GetSettingsNumber(settings, name, default, max) ==
    LET r == RetrieveSettings(settings, name, 200)
        v == GetIntegerFromString(r.value, max)
    IN  IF r.err = "not found" THEN [err |-> FALSE, value |-> default]
        ELSE IF r.err # "none" \/ v = {} THEN [err |-> TRUE, value |-> default]
        ELSE [err |-> FALSE, value |-> CHOOSE n \in v : TRUE]

Join(ts, d) ==
    LET J[i \in 0 .. Len(ts)] ==
          IF i = 0 THEN <<>> ELSE IF i = 1 THEN ts[1] ELSE J[i - 1] \o d \o ts[i]
    IN  J[Len(ts)]

Count(s, c) ==
    LET N[i \in 0 .. Len(s)] == IF i = 0 THEN 0 ELSE N[i - 1] + (IF s[i] = c THEN 1 ELSE 0)
    IN  N[Len(s)]

=============================================================================
