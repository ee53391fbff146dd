------------------------------ MODULE Strings -------------------------------
(***************************************************************************)
(* A string buffer edited in place by the editing functions of the string  *)
(* library; its other functions (StringOps, and the size printers of       *)
(* string/printstring.c below) are compared with what they are meant to    *)
(* return on every text the edits lead to.                                 *)
(***************************************************************************)
EXTENDS StringOps

CONSTANTS
    Texts,          \* the strings the buffer may start with
    Widths,         \* line widths
    Needles,        \* pairs [needle, subst]
    BufSize,        \* the size of the buffer
    Kilo, NUnits,   \* the units of a size: Kilo^1 .. Kilo^NUnits (1024 and 4)
    Sizes           \* sizes to print and read

VARIABLES text, last        \* the buffer, and the last edit with what it edited
vars == <<text, last>>

(* printstring.c: sizes with a unit and two digits after the point ********)

Power(n) == LET P[i \in 0 .. NUnits] == IF i = 0 THEN 1 ELSE Kilo * P[i - 1] IN P[n]

\* A text [int, frac, unit, suffix]: frac the digits after the point; all units but
\* the first look the same.
Printed(n, mod, unit) ==
    LET frac == IF mod = 0 \/ mod = 100 THEN <<>> ELSE <<mod \div 10, mod % 10>>
    IN  [int |-> IF mod = 100 THEN n + 1 ELSE n, frac |-> frac, unit |-> unit,
         suffix |-> IF unit # 0 THEN <<"K", "B">>
                    ELSE IF n <= 1 THEN <<"B", "y", "t", "e">> ELSE <<"B", "y", "t", "e", "s">>]

UnitOf(n) == CHOOSE u \in 0 .. NUnits : (u = 0 \/ Power(u) <= n) /\ (u = NUnits \/ n < Power(u + 1))

\* jf_string_getByteStringSize (and jf_string_getByteStringSize1000Based) round ...
GetByteStringSize(n) ==
    LET u == UnitOf(n)
    IN  IF u = 0 THEN Printed(n, 0, 0)
        ELSE Printed(n \div Power(u), ((n % Power(u)) * 100 + Power(u) \div 2) \div Power(u), u)

\* ... and jf_string_getByteStringSizeMax does not.
GetByteStringSizeMax(n) ==
    LET u == UnitOf(n)
    IN  IF u = 0 THEN Printed(n, 0, 0)
        ELSE Printed(n \div Power(u), ((n % Power(u)) * 100) \div Power(u), u)

Length(t) ==
    LET D[i \in 1 .. 10] == IF i = 10 \/ t.int < 10 ^ i THEN i ELSE D[i + 1]
    IN  D[1] + Len(t.suffix) + (IF t.frac = <<>> THEN 0 ELSE 1 + Len(t.frac))

\* jf_string_getSizeFromByteString: the digits after the point as hundredths.
GetSizeFromByteString(t) ==
    LET V[i \in 0 .. Len(t.frac)] == IF i = 0 THEN 0 ELSE 10 * V[i - 1] + t.frac[i]
        frac == V[Len(t.frac)]
    IN  IF t.suffix[Len(t.suffix)] # "B" \/ Length(t) \notin 2 .. 10 \/ (frac # 0 /\ t.unit = 0)
        THEN {}
        ELSE {t.int * Power(t.unit) + (frac * Power(t.unit)) \div 100}

(* The buffer *************************************************************)

Init == text \in Texts /\ last = <<"", <<>>>>

Edit(name, s) == text' = s /\ last' = <<name, text>>

Next ==
    \/ Edit("trim", TrimBlank(text))
    \/ Edit("filter", FilterComment(text, <<"#">>))
    \/ \E w \in Widths : Edit("break", BreakToLine(text, w))
    \/ \E r \in Needles : Edit("replace", Replace(text, BufSize, r.needle, r.subst))

Spec == Init /\ [][Next]_vars

\* jf_string_parse loses no character: its tokens, put together again with the
\* delimiter, are the text, and no token holds the delimiter.  jf_string_parseAdv does
\* the same and never cuts inside quotation marks, in a text with one kind of them.
\* jf_string_trimBlank leaves the words of the text, one space between them.
TokensExact ==
    \A d \in {<<",">>, <<" ">>, <<"=", " ">>} :
        LET ts == Parse(text, d)
            as == ParseAdv(text, d)
        IN  /\ Join(ts, d) = text /\ Join(as, d) = text
            /\ \A i \in 1 .. Len(ts) : LocateSubString(ts[i], d) = {}
            /\ \A q \in {"\"", "'"} : Chars(text) \cap {"\"", "'"} \subseteq {q} =>
                  \A i \in 1 .. Len(as) - 1 : Count(as[i], q) % 2 = 0
            /\ d = <<" ">> =>
                  LET Word(w) == w # <<>> IN TrimBlank(text) = Join(SelectSeq(ts, Word), d)

\* A setting processed out of the text is found again under its name, with the value
\* after the equals sign, unless an earlier setting has the same name; a name that
\* only starts like it does not hide it.
SettingsFound ==
    \A ss \in ProcessSettings(text, 8) : \A i \in 1 .. Len(ss) :
        \A c \in ProcessSettingString(ss[i]) :
            LET name == RemoveTailingSpace(c.name)
                r == RetrieveSettings(ss, name, BufSize)
                same == {j \in 1 .. Len(ss) : \E e \in ProcessSettingString(ss[j]) :
                            RemoveTailingSpace(e.name) = name}
            IN  /\ r.err # "not found"
                /\ same = {i} => r.value = SkipBlank(c.value)
                /\ i \notin InvalidSettings({name} \cup {<<"x">>}, ss) \/ name = <<>>

\* A replacement happens once and where the needle first was, and never makes the text
\* outgrow its buffer; the other edits never make it longer.
EditsInBounds ==
    /\ Len(text) < BufSize
    /\ last[1] \in {"trim", "filter"} => Len(text) <= Len(last[2])
    /\ last[1] = "break" => Len(text) = Len(last[2])

\* The scans agree with each other: what passes for an integer is a number to every
\* scan, of one value; an id list cut short is the start of the whole list.  A size
\* printed with a unit, two digits and no more than ten characters, and read back, is
\* the size up to one hundredth of its unit (more only by rounding), and a whole number
\* of units comes back exactly; so does a number of bytes written with a B.
ScansAgree ==
    /\ \A n \in ScanFromString(text, 99999) \ {Crash} :
          /\ GetLongFromString(text) = {n} /\ GetIdListFromString(text, 1) = {<<n>>}
          /\ ValidateFloatString(text) /\ ValidateHexString(text)
          /\ ValidateStringUsername(text) /\ ValidateStringAlias(text)
    /\ \A all \in GetIdListFromString(text, 100) :
          GetIdListFromString(text, 2) = {SubSeq(all, 1, IF Len(all) < 2 THEN Len(all) ELSE 2)}
    /\ IsBlankLine(TrimBlank(text)) <=> IsBlankLine(text)
    /\ last[1] = "" /\ text = <<>> => \A n \in Sizes :
          LET unit == Power(UnitOf(n))
              hundredth == unit \div 100 + 1
              IsBack(t, range) ==
                  IF n < Kilo \/ Length(t) > 10 THEN GetSizeFromByteString(t) = {}
                  ELSE \E v \in range : GetSizeFromByteString(t) = {n + v}
          IN  /\ IsBack(GetByteStringSize(n), -hundredth .. hundredth)
              /\ IsBack(GetByteStringSizeMax(n), -hundredth .. 0)
              /\ n % unit = 0 => IsBack(GetByteStringSize(n), {0})
              /\ Length([Printed(n, 0, 0) EXCEPT !.suffix = <<"B">>]) <= 10 =>
                    GetSizeFromByteString([Printed(n, 0, 0) EXCEPT !.suffix = <<"B">>]) = {n}

\* "The size string will be the format of xxxx.xxTB|GB|MB|KB|B" (jf_string.h), and a
\* size that was printed is read back.  Not so: below one kilobyte the unit is written
\* Byte or Bytes, which the scan refuses.
SizesReadBack == \A n \in Sizes : GetSizeFromByteString(GetByteStringSize(n)) # {}

\* No characters are no integer to the scans of scanstring.c.  Not so: the null pointer
\* that the copy of no characters is goes to strlen.
EmptyRefused == Crash \notin ScanFromString(text, 99999)

\* "Only space will be replaced with line terminator" (jf_string.h).  Not so: a first
\* word as long as the width loses its first character.
OnlySpacesBreak ==
    last[1] = "break" =>
        \A i \in 1 .. Len(text) : text[i] = last[2][i] \/ last[2][i] \in {" ", "\n"}

=============================================================================
