------------------------------ MODULE Clieng ------------------------------
(***************************************************************************)
(* The command line engine (src/clieng).                                   *)
(*   shell   _cliengLoop: the line editor of engio.c feeding the parser of *)
(*           cmdparser.c, with the history ring of cmdhistory.c            *)
(*   script  one command given to jf_clieng_run: the parser on any line    *)
(*   pager   the 'more' accounting of the output functions                 *)
(*   table   the column arithmetic of headers and brief lines              *)
(*   keys    decoding of function keys                                     *)
(* Arrays of the code are functions from 0; characters are strings. What   *)
(* the editor echoes to the terminal is left out.                          *)
(***************************************************************************)
EXTENDS Integers, Sequences, FiniteSets, SequencesExt

CONSTANTS
    Chars,          \* printable characters typed into a line
    ScriptChars,    \* characters of a script line
    MaxScript,      \* bound: length of a script line
    MaxLine,        \* JF_CLIENG_MAX_COMMAND_LINE_LEN
    HistSize,       \* CLIENG_CMD_HISTORY_SIZE
    MaxArgc,        \* MAX_ARGC
    Commands,       \* names in the command table
    MaxKeys,        \* bound: keys typed
    MaxHist,        \* bound: commands appended
    ScreenRows,     \* rows of the terminal, for the pager
    U8,             \* 2^8, the width of ici_u8MoreLines
    MaxOut,         \* JF_CLIENG_MAX_OUTPUT_LINE_LEN
    CaptionLens     \* widths of the columns of a table

VARIABLES
    side,
    ed,             \* editor: [arr, n, i, len, open] (string, str_length, i, *pLen)
    ideal,          \* the line as an editor should have it: [before, after]
    hist,           \* ring: [cmds, first, last, cur]
    past,           \* every command appended
    recall,         \* what the latest arrow key brought, and how far back it is
    args,           \* outcome of the latest command: [line, ret, argv]
    stopped,        \* ic_bTerminateClieng
    typed,          \* keys so far
    more,           \* [enabled, cancel, lines, todo, kind]
    shown,          \* lines shown since the latest pause
    col,            \* [len, want, count]: the line of a table being built
    keybuf,         \* characters waiting in stdin
    keys            \* keys decoded from it

shellVars == <<ed, ideal, hist, past, recall, stopped, typed>>
pagerVars == <<more, shown>>
cliengVars == <<side, shellVars, args, pagerVars, col, keybuf, keys>>

MaxInputLen == 2 * MaxLine
Invalid == -1
Junk == "?"

-----------------------------------------------------------------------------
(* cmdparser.c.                                                            *)

\* _trimCmdLine. Only a line that starts with the mark is a comment.
TrimCmdLine(s) ==
    LET from == SelectInSeq(s, LAMBDA c : c # " ")
        text == SubSeq(s, from, Len(s))
        to == SelectLastInSeq(text, LAMBDA c : c # "\n")
    IN  IF s = <<>> THEN [ret |-> "blank", text |-> <<>>]
        ELSE IF s[1] = "#" THEN [ret |-> "comment", text |-> <<>>]
        ELSE IF from = 0 THEN [ret |-> "blank", text |-> <<>>]
        ELSE [ret |-> "ok", text |-> SubSeq(text, 1, to)]

\* jf_process_formCmdLineArguments, with the positions of the code (from 0) and
\* At(s, k) reading the terminating 0 beyond the end.
At(s, k) == IF k < Len(s) THEN s[k + 1] ELSE "0"
Cut(s, from, to) == SubSeq(s, from + 1, to)

RECURSIVE SkipWhile(_, _, _)
SkipWhile(s, k, c) == IF At(s, k + 1) = c THEN SkipWhile(s, k + 1, c) ELSE k

RECURSIVE EndQuote(_, _)
EndQuote(s, k) ==
    IF At(s, k + 1) # "\"" /\ k + 1 < Len(s) THEN EndQuote(s, k + 1) ELSE k

RECURSIVE FormArgs(_, _, _, _)
FormArgs(s, index, pos, argv) ==
    IF index >= Len(s) \/ Len(argv) >= MaxArgc THEN [ret |-> "ok", argv |-> argv]
    ELSE IF s[index + 1] = "\""
    THEN LET k == EndQuote(s, index) IN
         IF At(s, k + 1) # "\"" THEN [ret |-> "missing quote", argv |-> argv]
         ELSE IF At(s, k + 2) = "0"
         THEN FormArgs(s, k + 2, k + 2, Append(argv, Cut(s, pos, k + 2)))
         ELSE FormArgs(s, k + 2, pos, argv)
    ELSE IF s[index + 1] = " "
    THEN LET k == SkipWhile(s, index, " ")
         IN  FormArgs(s, k + 1, k + 1, Append(argv, Cut(s, pos, index)))
    ELSE IF At(s, index + 1) = "0"
    THEN FormArgs(s, index + 1, index + 1, Append(argv, Cut(s, pos, index + 1)))
    ELSE FormArgs(s, index + 1, pos, argv)

\* _preProcessCmdLine: an argument that starts with a quote loses its first and
\* its last character.
Unquote(a) == IF a # <<>> /\ a[1] = "\"" THEN SubSeq(a, 2, Len(a) - 1) ELSE a
PreProcess(argv) == [k \in 1..Len(argv) |-> IF k = 1 THEN argv[k] ELSE Unquote(argv[k])]

\* _findMore.
More == <<"m">>
FindMore(argv) ==
    LET n == Len(argv) IN
    IF n >= 2 /\ argv[n] = More /\ argv[n - 1] = <<"|">> THEN SubSeq(argv, 1, n - 2)
    ELSE IF n >= 2 /\ argv[n] = <<"|">> \o More THEN SubSeq(argv, 1, n - 1)
    ELSE argv

\* parseCliengCmd up to the callbacks of the command. Cutting the pager off may
\* leave no argument; the table is then asked for the name that is still there.
ParseCmd(s) ==
    LET trimmed == TrimCmdLine(s)
        formed == FormArgs(trimmed.text, 0, 0, <<>>)
        argv == PreProcess(FindMore(formed.argv))
    IN  IF trimmed.ret # "ok" THEN [ret |-> trimmed.ret, argv |-> <<>>]
        ELSE IF formed.ret # "ok" THEN [ret |-> formed.ret, argv |-> <<>>]
        ELSE IF formed.argv = <<>> THEN [ret |-> "blank", argv |-> <<>>]
        ELSE IF formed.argv[1] \notin Commands THEN [ret |-> "invalid command", argv |-> argv]
        ELSE [ret |-> "ok", argv |-> argv]

Script ==
    /\ side = "script" /\ args.ret = "none"
    /\ \E n \in 0..MaxScript : \E s \in [1..n -> ScriptChars] :
         args' = [line |-> s, ret |-> ParseCmd(s).ret, argv |-> ParseCmd(s).argv]
    /\ UNCHANGED <<side, shellVars, pagerVars, col, keybuf, keys>>

-----------------------------------------------------------------------------
(* cmdhistory.c.                                                           *)

EmptyHist == [cmds |-> [k \in 0..HistSize - 1 |-> <<>>],
              first |-> Invalid, last |-> Invalid, cur |-> 0]

\* Mutant: the first index of a full ring stays where it is.
AppendKeepsFirst(h, cmd) ==
    LET last == IF h.last = Invalid THEN 0 ELSE (h.last + 1) % HistSize
    IN  [cmds |-> [h.cmds EXCEPT ![last] = cmd],
         first |-> IF h.last = Invalid THEN 0 ELSE h.first, last |-> last, cur |-> last + 1]

AppendCommand(h, cmd) ==
    LET last == IF h.last = Invalid THEN 0 ELSE (h.last + 1) % HistSize
        first == IF h.last = Invalid THEN 0
                 ELSE IF h.first = last THEN (h.first + 1) % HistSize ELSE h.first
    IN  [cmds |-> [h.cmds EXCEPT ![last] = cmd], first |-> first, last |-> last, cur |-> last + 1]

\* Both return the buffer of the caller, which holds the letter of the arrow
\* when the command does not fit in sBuf, and the ring.
GetPreviousCommand(h, sBuf) ==
    IF h.last = Invalid THEN [buf |-> <<>>, h |-> h]
    ELSE LET previous == IF h.cur > 0 THEN h.cur - 1
                         ELSE IF h.first = 0 THEN h.last ELSE HistSize - 1
         IN  IF Len(h.cmds[previous]) + 1 > sBuf THEN [buf |-> <<"A">>, h |-> h]
             ELSE [buf |-> h.cmds[previous], h |-> [h EXCEPT !.cur = previous]]

GetNextCommand(h, sBuf) ==
    IF h.last = Invalid \/ h.cur - 1 = h.last \/ h.cur = h.last
    THEN [buf |-> <<>>, h |-> h]
    ELSE LET next == (h.cur + 1) % HistSize
         IN  IF Len(h.cmds[next]) + 1 > sBuf THEN [buf |-> <<"B">>, h |-> h]
             ELSE [buf |-> h.cmds[next], h |-> [h EXCEPT !.cur = next]]

-----------------------------------------------------------------------------
(* _getInputLine, one key at a time, inside _cliengLoop.                   *)

FreshLine == [arr |-> [k \in 0..MaxInputLen |-> Junk], n |-> 0, i |-> 0]
Line(e) == [k \in 1..e.n |-> e.arr[k - 1]]

\* The line a navigation command left in the input buffer.
Loaded(buf) ==
    LET n == IF Len(buf) > MaxInputLen THEN MaxInputLen ELSE Len(buf)
    IN  [arr |-> [k \in 0..MaxInputLen |-> IF k < n THEN buf[k + 1] ELSE Junk], n |-> n, i |-> n]

Insert(e, c) ==
    [arr |-> [k \in 0..MaxInputLen |-> IF k = e.i THEN c
                                       ELSE IF k > e.i /\ k <= e.n THEN e.arr[k - 1]
                                       ELSE e.arr[k]],
     n |-> e.n + 1, i |-> e.i + 1]

Backspace(e) ==
    IF e.i = 0 THEN e
    ELSE [arr |-> [k \in 0..MaxInputLen |-> IF k >= e.i - 1 /\ k < e.n - 1 THEN e.arr[k + 1]
                                            ELSE e.arr[k]],
          n |-> e.n - 1, i |-> e.i - 1]

MoveCursor(e, key) ==
    CASE key = "left"  -> [e EXCEPT !.i = IF @ > 0 THEN @ - 1 ELSE 0]
      [] key = "right" -> [e EXCEPT !.i = IF @ < e.n THEN @ + 1 ELSE @]
      [] key = "home"  -> [e EXCEPT !.i = 0]
      [] key = "end"   -> [e EXCEPT !.i = e.n]

\* The same keys on the ideal line.
IdealKey(d, key) ==
    LET b == d.before
        a == d.after
        all == b \o a
    IN  CASE key = "left" /\ b # <<>> -> [before |-> Front(b), after |-> <<Last(b)>> \o a]
          [] key = "right" /\ a # <<>> -> [before |-> Append(b, Head(a)), after |-> Tail(a)]
          [] key = "home" -> [before |-> <<>>, after |-> all]
          [] key = "end" -> [before |-> all, after |-> <<>>]
          [] key = "backspace" /\ b # <<>> -> [before |-> Front(b), after |-> a]
          [] key \in Chars -> [before |-> Append(b, key), after |-> a]
          [] OTHER -> d

\* Commands in the ring.
Kept == IF Len(past) < HistSize THEN Len(past) ELSE HistSize

NoIdeal == [before |-> <<>>, after |-> <<>>]
NoRecall == [key |-> "none", buf |-> <<>>, back |-> 0]
NewPrompt == ed' = FreshLine /\ ideal' = NoIdeal

EditKey(key) ==
    /\ ed' = IF key \in Chars THEN Insert(ed, key)
             ELSE IF key = "backspace" THEN Backspace(ed) ELSE MoveCursor(ed, key)
    /\ ideal' = IdealKey(ideal, key)
    /\ UNCHANGED <<hist, past, recall, args, stopped>>

\* Nothing more fits, or a control character came: the line is lost.
RefuseKey ==
    /\ NewPrompt
    /\ UNCHANGED <<hist, past, recall, args, stopped>>

Navigate(key) ==
    LET r == IF key = "up" THEN GetPreviousCommand(hist, MaxLine) ELSE GetNextCommand(hist, MaxLine)
    IN  /\ hist' = r.h
        /\ ed' = Loaded(r.buf)
        /\ ideal' = [before |-> r.buf, after |-> <<>>]
        /\ recall' = [key |-> key, buf |-> r.buf,
                      back |-> IF past = <<>> THEN 0
                               ELSE IF key = "up" THEN (recall.back % Kept) + 1
                               ELSE IF recall.back > 1 THEN recall.back - 1 ELSE recall.back]
        /\ UNCHANGED <<past, args, stopped>>

\* End of the line: too long a line is refused, any other is parsed, and kept
\* unless it was blank or a comment. The "quit" callback stops the engine.
Enter ==
    LET line == Line([ed EXCEPT !.i = ed.n])
        r == ParseCmd(line)
    IN  /\ NewPrompt
        /\ IF MaxLine < Len(line)
           THEN /\ args' = [line |-> <<>>, ret |-> "too long", argv |-> <<>>]
                /\ UNCHANGED <<hist, past, recall, stopped>>
           ELSE /\ args' = [line |-> line, ret |-> r.ret, argv |-> r.argv]
                /\ stopped' = (r.ret = "ok" /\ r.argv # <<>> /\ r.argv[1] = <<"q">>)
                /\ IF r.ret \in {"blank", "comment"} THEN UNCHANGED <<hist, past, recall>>
                   ELSE /\ Len(past) < MaxHist
                        /\ hist' = AppendCommand(hist, line)
                        /\ past' = Append(past, line) /\ recall' = NoRecall

Type(key) ==
    CASE key \in Chars -> IF ed.n >= MaxInputLen THEN RefuseKey ELSE EditKey(key)
      [] key = "control" -> RefuseKey
      [] key \in {"up", "down"} -> Navigate(key)
      [] key = "enter" -> Enter
      [] OTHER -> EditKey(key)

ShellKeys == Chars \cup {"left", "right", "home", "end", "backspace", "up", "down",
                         "enter", "control"}

ClearHistory ==
    /\ past # <<>>
    /\ hist' = [hist EXCEPT !.first = Invalid, !.last = Invalid, !.cur = 0]
    /\ past' = <<>> /\ recall' = NoRecall
    /\ UNCHANGED <<ed, ideal, args, stopped>>

ShellNext ==
    /\ side = "shell" /\ ~stopped /\ typed < MaxKeys
    /\ typed' = typed + 1
    /\ (ClearHistory /\ ed.n = 0) \/ \E key \in ShellKeys : Type(key)
    /\ UNCHANGED <<side, pagerVars, col, keybuf, keys>>

-----------------------------------------------------------------------------
(* The pager. An output call is broken up into the lines it prints; todo   *)
(* counts those left and kind tells which function prints them.            *)

\* _getMaxMoreLines, an unsigned subtraction.
MaxMoreLines == IF ScreenRows = 0 THEN 23 ELSE IF ScreenRows = 1 THEN 1000000 ELSE ScreenRows - 2

SetMoreEnable ==
    /\ more.todo = 0
    /\ more' = [more EXCEPT !.enabled = TRUE, !.cancel = FALSE, !.lines = 0]
    /\ shown' = 0

SetMoreDisable ==
    /\ more.todo = 0
    /\ more' = [more EXCEPT !.enabled = FALSE, !.cancel = FALSE, !.lines = 0]
    /\ shown' = 0

\* _outputLineInEngIo for a text of n lines, engioOutput, outputParagraph.
StartOutput(kind, n) ==
    /\ more.todo = 0
    /\ more' = [more EXCEPT !.todo = n, !.kind = kind]
    /\ UNCHANGED shown

MustWait(m) == m.enabled /\ m.lines >= MaxMoreLines /\ (m.kind = "paragraph" \/ ~m.cancel)

\* _waitForMore: ENTER goes on with a new page, CTRL-X gives up the output.
WaitForMore(cancel) ==
    /\ more.todo > 0 /\ MustWait(more)
    /\ more' = IF cancel THEN [more EXCEPT !.cancel = TRUE, !.todo = 0]
               ELSE [more EXCEPT !.lines = 0]
    /\ shown' = 0

\* A canceled pager drops the rest; outputParagraph never looks.
PrintLine ==
    /\ more.todo > 0 /\ ~MustWait(more)
    /\ IF more.enabled /\ more.cancel /\ more.kind # "paragraph"
       THEN more' = [more EXCEPT !.todo = 0] /\ UNCHANGED shown
       ELSE /\ more' = [more EXCEPT !.todo = @ - 1,
                                    !.lines = IF more.kind = "output" THEN @ ELSE (@ + 1) % U8]
            /\ shown' = IF more.kind = "output" THEN shown ELSE shown + 1

PagerNext ==
    /\ side = "pager"
    /\ \/ SetMoreEnable
       \/ SetMoreDisable
       \/ \E n \in 1..3 : StartOutput("line", n)
       \/ StartOutput("output", 1)
       \/ StartOutput("paragraph", 3)
       \/ \E c \in BOOLEAN : WaitForMore(c)
       \/ PrintLine
    /\ shown' <= 8
    /\ UNCHANGED <<side, shellVars, args, col, keybuf, keys>>

-----------------------------------------------------------------------------
(* Tables. A line is its length; want is where the column should end.      *)

\* getDelimit: how many blanks it returns, taken from the end of a buffer of
\* MaxOut - 1 blanks.
Delimit(strLen, total) ==
    IF strLen > total THEN 1
    ELSE IF total - strLen > MaxOut THEN MaxOut ELSE total - strLen

\* _checkCaption on the widths.
CheckCaption(total) == total <= MaxOut - 1

\* jf_clieng_printHeader and its shifted twin: a caption and blanks up to the
\* sum of the widths so far.
HeaderColumn(width, text) ==
    /\ text < width /\ CheckCaption(col.want + width)
    /\ LET len == col.len + text
       IN  col' = [len |-> len + Delimit(len, col.want + width),
                   want |-> col.want + width, count |-> col.count + 1]

\* jf_clieng_appendBriefColumn: the text is cut to the width less one.
BriefColumn(width, text) ==
    /\ CheckCaption(col.want + width)
    /\ LET n == IF text > width - 1 THEN width - 1 ELSE text
       IN  col' = [len |-> col.len + n + Delimit(n, width),
                   want |-> col.want + width, count |-> col.count + 1]

TableNext ==
    /\ side = "table"
    /\ \/ \E w \in CaptionLens, t \in 0..MaxOut : HeaderColumn(w, t)
       \/ \E w \in CaptionLens, t \in 0..MaxOut : BriefColumn(w, t)
    /\ UNCHANGED <<side, shellVars, args, pagerVars, keybuf, keys>>

-----------------------------------------------------------------------------
(* Keys. _getAnyKey reads one key from stdin; getInputKey names it. The    *)
(* codes are those of the code, in decimal.                                *)

Esc == 27
Tilde == 126

\* Characters _getAnyKey takes from the buffer after an escape.
RECURSIVE SkipEsc(_, _)
SkipEsc(b, k) == IF k <= Len(b) /\ b[k] = Esc THEN SkipEsc(b, k + 1) ELSE k

KeyLen(b) ==
    IF b[1] # Esc THEN 1
    ELSE LET k == SkipEsc(b, 2) + 1
         IN  IF b[k] \notin 49..54 THEN k
             ELSE IF b[k + 1] = Tilde THEN k + 1 ELSE k + 2

Digit1 == 49 :> "f1" @@ 50 :> "f2" @@ 51 :> "f3" @@ 52 :> "f4" @@ 53 :> "f5"
          @@ 55 :> "f6" @@ 56 :> "f7" @@ 57 :> "f8" @@ Tilde :> "home"
Digit2 == 48 :> "f9" @@ 49 :> "f10" @@ 51 :> "f11" @@ 52 :> "f12" @@ Tilde :> "insert"
Third == 51 :> "delete" @@ 52 :> "end" @@ 65 :> "up" @@ 66 :> "down" @@ 67 :> "right"
         @@ 68 :> "left" @@ 53 :> "pgup" @@ 73 :> "pgup" @@ 54 :> "pgdn" @@ 71 :> "pgdn"
Plain == 1 :> "save" @@ 4 :> "pgdn" @@ 5 :> "help" @@ 8 :> "backspace" @@ 9 :> "tab"
         @@ 18 :> "restore" @@ 21 :> "pgup" @@ 24 :> "return" @@ 10 :> "enter"
         @@ 32 :> "space" @@ 127 :> "backspace"

Lookup(f, c) == IF c \in DOMAIN f THEN f[c] ELSE "unknown"

KeyName(b) ==
    IF b[1] # Esc THEN Lookup(Plain, b[1])
    ELSE LET k == SkipEsc(b, 2)
         IN  IF b[k] \notin {91, 79} THEN "unknown"
             ELSE CASE b[k + 1] = 49 -> Lookup(Digit1, b[k + 2])
                    [] b[k + 1] = 50 -> Lookup(Digit2, b[k + 2])
                    [] OTHER -> Lookup(Third, b[k + 1])

\* What a terminal sends for a key.
KeySequences ==
    {<<<<c>>, Plain[c]>> : c \in DOMAIN Plain}
    \cup {<<<<Esc, 91, c>>, Third[c]>> : c \in DOMAIN Third \ 49..54}
    \cup {<<<<Esc, 91, c, Tilde>>, Third[c]>> : c \in DOMAIN Third \cap 49..54}
    \cup {<<<<Esc, 91, 49, c, Tilde>>, Digit1[c]>> : c \in DOMAIN Digit1 \ {Tilde}}
    \cup {<<<<Esc, 91, 50, c, Tilde>>, Digit2[c]>> : c \in DOMAIN Digit2 \ {Tilde}}
    \cup {<<<<Esc, 91, 49, Tilde>>, "home">>, <<<<Esc, 91, 50, Tilde>>, "insert">>}

PressKey ==
    /\ Len(keys.pressed) < 2
    /\ \E s \in KeySequences :
         /\ keybuf' = keybuf \o s[1]
         /\ keys' = [keys EXCEPT !.pressed = Append(@, s[2])]

GetInputKey ==
    /\ keybuf # <<>>
    /\ keybuf' = SubSeq(keybuf, KeyLen(keybuf) + 1, Len(keybuf))
    /\ keys' = [keys EXCEPT !.read = Append(@, KeyName(keybuf))]

KeysNext ==
    /\ side = "keys"
    /\ PressKey \/ GetInputKey
    /\ UNCHANGED <<side, shellVars, args, pagerVars, col>>

-----------------------------------------------------------------------------
CliengInit ==
    /\ side \in {"shell", "script", "pager", "table", "keys"}
    /\ ed = FreshLine /\ ideal = NoIdeal /\ hist = EmptyHist /\ past = <<>>
    /\ recall = NoRecall /\ stopped = FALSE /\ typed = 0
    /\ args = [line |-> <<>>, ret |-> "none", argv |-> <<>>]
    /\ more = [enabled |-> FALSE, cancel |-> FALSE, lines |-> 0, todo |-> 0, kind |-> "line"]
    /\ shown = 0
    /\ col = [len |-> 0, want |-> 0, count |-> 0]
    /\ keybuf = <<>> /\ keys = [pressed |-> <<>>, read |-> <<>>]

CliengNext == ShellNext \/ Script \/ PagerNext \/ TableNext \/ KeysNext

-----------------------------------------------------------------------------
\* The last HistSize commands are in the ring, oldest at the first index, and
\* the line in the editor's array is the one its keys make, with the cursor in
\* its place, whatever was recalled, moved over, inserted and deleted.
ShellExact ==
    LET n == Kept
    IN  /\ Line(ed) = ideal.before \o ideal.after /\ ed.i = Len(ideal.before)
        /\ past = <<>> <=> hist.last = Invalid
        /\ \A k \in 0..n - 1 :
             hist.cmds[(hist.first + k) % HistSize] = past[Len(past) - n + 1 + k]

\* The words of a line: unquoted blanks separate them.
Words(s) ==
    LET step(w, c) ==
            [q |-> IF c = "\"" THEN ~w.q ELSE w.q,
             cur |-> IF c = " " /\ ~w.q THEN <<>> ELSE Append(w.cur, c),
             words |-> IF c = " " /\ ~w.q /\ w.cur # <<>> THEN Append(w.words, w.cur) ELSE w.words]
        r == FoldLeft(step, [q |-> FALSE, cur |-> <<>>, words |-> <<>>], s)
    IN  [open |-> r.q, words |-> IF r.cur = <<>> THEN r.words ELSE Append(r.words, r.cur)]

\* A command runs with the words of its line as arguments, in order, up to
\* MAX_ARGC of them, without the quotes around them and without the pager.
ArgumentsExact ==
    args.ret \in {"ok", "invalid command"} =>
      LET w == Words(args.line)
          n == IF Len(w.words) < MaxArgc THEN Len(w.words) ELSE MaxArgc
      IN  args.argv = PreProcess(FindMore(SubSeq(w.words, 1, n)))

\* With the pager on no page is longer than the terminal.
PagerKeepsPages == more.enabled /\ MaxMoreLines \in 1..U8 - 1 => shown <= MaxMoreLines

\* Every column of a table starts where the captions say.
ColumnsAligned == col.len = col.want

\* Each key is read whole and as itself, however many are waiting.
KeysExact == IsPrefix(keys.read, keys.pressed) /\ (keybuf = <<>> => keys.read = keys.pressed)

\* cmdhistory.c: "Already reached the last command." is the reason for an empty
\* line on a down arrow: with an older command showing there is a next one.
DownUndoesUp ==
    [][\/ recall.back < 2 \/ recall'.key # "down"
       \/ \E k \in 1..Len(past) : Len(past[k]) >= MaxLine
       \/ recall'.buf # <<>>]_cliengVars

\* The line that was typed and its terminator fit ic_strInputBuffer and cmd_str of
\* _cliengLoop. They do not when the line has exactly MaxLine characters, which
\* _getInputLine does not refuse.
LineFits == Len(args.line) < MaxLine
=============================================================================
