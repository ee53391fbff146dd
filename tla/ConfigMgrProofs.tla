-------------------------- MODULE ConfigMgrProofs ---------------------------
(***************************************************************************)
(* The configuration manager for every set of clients, keys, values, ids,  *)
(* and every number of slots: a transaction is isolated and atomic, a      *)
(* start is refused only when all slots are taken, and the configuration   *)
(* on disk is the one saved last.                                          *)
(*                                                                         *)
(* What a request does is in ConfigServeProofs.  Here are the lines of the *)
(* configuration file, what a save writes and a start reads back, and the  *)
(* steps of the start, the save and the kill.                              *)
(***************************************************************************)
EXTENDS ConfigServeProofs

-----------------------------------------------------------------------------
(* Files. *)

\* What a line is made of.
LEMMA LineFacts ==
    /\ \A l \in LineType : /\ l.key \in AllKeys /\ l.value \in AllValues \cup {NoValue}
                           /\ l.whole \in BOOLEAN
                           /\ HasValue(l) => l.value \in AllValues
    /\ \A k \in AllKeys, v \in AllValues :
         /\ Line(k, v) \in LineType /\ HasValue(Line(k, v)) /\ Line(k, v).whole
         /\ Line(k, v).key = k /\ Line(k, v).value = v
  BY ConfigAssumption DEF LineType, Line, HasValue

\* The lines of a key, and the last of them, which counts.
LEMMA LinesOfFacts ==
    ASSUME NEW f \in Seq(LineType), NEW k \in KeysOf(f)
    PROVE  /\ k \in AllKeys
           /\ Max(LinesOf(f, k)) \in 1 .. Len(f)
           /\ HasValue(f[Max(LinesOf(f, k))]) /\ f[Max(LinesOf(f, k))].key = k
           /\ f[Max(LinesOf(f, k))].value \in AllValues
           /\ \A n \in 1 .. Len(f) : HasValue(f[n]) /\ f[n].key = k => n <= Max(LinesOf(f, k))
  <1> DEFINE S == LinesOf(f, k)
  <1>1. Len(f) \in Nat /\ DOMAIN f = 1 .. Len(f)
    OBVIOUS
  <1>2. S \subseteq 1 .. Len(f) /\ S # {} /\ k \in AllKeys
    BY <1>1 DEF LinesOf, KeysOf
  <1>3. \A n \in 1 .. Len(f) : n \in S <=> HasValue(f[n]) /\ f[n].key = k
    BY <1>1 DEF LinesOf
  <1> HIDE DEF S
  <1>4. Max(S) \in S /\ \A n \in S : Max(S) >= n
    BY <1>1, <1>2, MaxFacts
  <1>5. Max(S) \in 1 .. Len(f)
    BY <1>2, <1>4
  <1>6. HasValue(f[Max(S)]) /\ f[Max(S)].key = k
    BY <1>3, <1>4, <1>5
  <1>7. f[Max(S)] \in LineType
    BY <1>5
  <1>8. f[Max(S)].value \in AllValues
    BY <1>6, <1>7, LineFacts, Zenon
  <1>9. ASSUME NEW n \in 1 .. Len(f), HasValue(f[n]), f[n].key = k PROVE n <= Max(S)
    <2>1. Max(S) >= n
      BY <1>3, <1>4, <1>9
    <2> QED BY <1>5, <2>1
  <1> QED
    BY <1>2, <1>5, <1>6, <1>8, <1>9 DEF S

\* A key of a file, by one of its lines.
LEMMA KeysOfFacts ==
    ASSUME NEW f \in Seq(LineType)
    PROVE  /\ KeysOf(f) \subseteq AllKeys
           /\ \A n \in 1 .. Len(f) : HasValue(f[n]) => f[n].key \in KeysOf(f)
           /\ \A k \in KeysOf(f) : \E n \in 1 .. Len(f) : HasValue(f[n]) /\ f[n].key = k
  <1>1. DOMAIN f = 1 .. Len(f) /\ \A n \in 1 .. Len(f) : f[n] \in LineType
    OBVIOUS
  <1>2. ASSUME NEW n \in 1 .. Len(f), HasValue(f[n]) PROVE f[n].key \in KeysOf(f)
    <2>1. f[n].key \in AllKeys
      BY <1>1, LineFacts
    <2>2. n \in LinesOf(f, f[n].key)
      BY <1>1, <1>2 DEF LinesOf
    <2> QED BY <2>1, <2>2 DEF KeysOf
  <1> QED
    BY <1>1, <1>2 DEF KeysOf, LinesOf

\* Loading a file makes a table; what a comment sign cuts off is cut off once.
LEMMA LoadFacts ==
    ASSUME NEW f \in Seq(LineType)
    PROVE  /\ Load(f) \in Table /\ DOMAIN Load(f) = KeysOf(f)
           /\ \A k \in KeysOf(f) : Load(f)[k] = AsRead[f[Max(LinesOf(f, k))].value]
           /\ ReadBack(Load(f)) = Load(f)
  <1>1. ASSUME NEW k \in KeysOf(f)
        PROVE  /\ Load(f)[k] = AsRead[f[Max(LinesOf(f, k))].value]
               /\ Load(f)[k] \in AllValues /\ AsRead[Load(f)[k]] = Load(f)[k]
    <2>1. f[Max(LinesOf(f, k))].value \in AllValues
      BY LinesOfFacts
    <2>2. Load(f)[k] = AsRead[f[Max(LinesOf(f, k))].value]
      BY DEF Load, Parsed, Line
    <2> QED BY <2>1, <2>2, ConfigAssumption
  <1>2. DOMAIN Load(f) = KeysOf(f) /\ Load(f) = [k \in KeysOf(f) |-> Load(f)[k]]
    BY DEF Load
  <1>3. KeysOf(f) \subseteq AllKeys
    BY KeysOfFacts
  <1>4. Load(f) \in Table
    BY <1>1, <1>2, <1>3, TableFacts, Zenon
  <1>5. ReadBack(Load(f)) = [k \in KeysOf(f) |-> AsRead[Load(f)[k]]]
    BY <1>2 DEF ReadBack
  <1> QED
    BY <1>1, <1>2, <1>4, <1>5

\* An empty file has no configuration.
LEMMA EmptyFile == <<>> \in Seq(LineType) /\ KeysOf(<<>>) = {} /\ Whole(<<>>)
  BY DEF KeysOf, LinesOf, Whole

\* A file or the empty file that is made for a missing one.
LEMMA ContentFacts ==
    ASSUME NEW f \in File
    PROVE  /\ Content(f) \in Seq(LineType) /\ Content(f) \in File
           /\ Content(f) # NoFile
           /\ f # NoFile => Content(f) = f
           /\ Content(Content(f)) = Content(f)
  <1>1. Content(f) \in Seq(LineType)
    BY EmptyFile DEF Content, File
  <1>2. Content(f) # NoFile
    BY <1>1, ConfigAssumption
  <1> QED
    BY <1>1, <1>2 DEF Content, File

\* A line that is rewritten stays a line with a value, that of the tree.
LEMMA UpdatedFacts ==
    ASSUME NEW l \in LineType, HasValue(l), NEW t \in Table, l.key \in DOMAIN t
    PROVE  /\ Updated(l, t) \in LineType /\ HasValue(Updated(l, t)) /\ Updated(l, t).whole
           /\ Updated(l, t).key = l.key /\ Updated(l, t).value = t[l.key]
  <1>1. l.key \in AllKeys /\ t[l.key] \in AllValues
    BY TableFacts
  <1>2. Updated(l, t) = Line(l.key, t[l.key])
    BY DEF Updated
  <1> DEFINE v == t[l.key]
  <1>3. /\ Line(l.key, v) \in LineType /\ HasValue(Line(l.key, v)) /\ Line(l.key, v).whole
        /\ Line(l.key, v).key = l.key /\ Line(l.key, v).value = v
    <2> HIDE DEF v
    <2> QED BY <1>1, LineFacts DEF v
  <1> QED
    BY <1>2, <1>3

-----------------------------------------------------------------------------
(* What a save writes. *)

\* jf_conffile_traverse is defined at every line of the file.
LEMMA RewrittenWalk ==
    ASSUME NEW f \in Seq(LineType), NEW t
    PROVE  Rewritten(f, t) = [n \in 0 .. Len(f) |->
              IF n = 0 THEN <<>>
              ELSE IF HasValue(f[n]) THEN Append(Rewritten(f, t)[n - 1], Updated(f[n], t))
              ELSE Rewritten(f, t)[n - 1]]
  <1> DEFINE Step(g, n) == IF n = 0 THEN <<>>
                           ELSE IF HasValue(f[n]) THEN Append(g[n - 1], Updated(f[n], t))
                           ELSE g[n - 1]
             Walk(g, m) == g = [n \in 0 .. m |-> Step(g, n)]
             T == {m \in 0 .. Len(f) : ~ \E g : Walk(g, m)}
  <1>1. Len(f) \in Nat
    OBVIOUS
  <1>2. Walk([n \in 0 .. 0 |-> <<>>], 0)
    OBVIOUS
  <1>3. ASSUME NEW m \in 1 .. Len(f), NEW g, Walk(g, m - 1)
        PROVE  \E h : Walk(h, m)
    <2> DEFINE h == [n \in 0 .. m |-> IF n = m THEN Step(g, m) ELSE g[n]]
    <2>1. \A n \in 0 .. m : n = m \/ n \in 0 .. m - 1
      BY <1>1
    <2>2. \A n \in 0 .. m - 1 : n \in 0 .. m /\ n # m /\ (n # 0 => n - 1 \in 0 .. m - 1)
      BY <1>1
    <2>3. m \in 0 .. m /\ m # 0 /\ m - 1 \in 0 .. m - 1
      BY <1>1
    <2>4. \A n \in 0 .. m - 1 : h[n] = g[n] /\ g[n] = Step(g, n)
      BY <1>3, <2>2
    <2>5. h[m] = Step(g, m)
      BY <2>3
    <2> HIDE DEF h
    <2>6. \A n \in 0 .. m : h[n] = Step(h, n)
      BY <2>1, <2>2, <2>3, <2>4, <2>5
    <2>7. h = [n \in 0 .. m |-> h[n]]
      BY DEF h
    <2>8. Walk(h, m)
      BY <2>6, <2>7
    <2> QED BY <2>8
  <1>4. T = {}
    <2> SUFFICES ASSUME T # {} PROVE FALSE
      OBVIOUS
    <2>1. T \subseteq Nat
      BY <1>1
    <2>2. PICK m \in T : \A k \in T : m <= k
      <3> HIDE DEF T
      <3> QED BY <2>1, LeastElement
    <2>3. m \in 0 .. Len(f) /\ ~ \E g : Walk(g, m)
      BY <2>2
    <2> HIDE DEF Walk
    <2>4. m # 0
      BY <1>2, <2>3
    <2>5. m \in 1 .. Len(f) /\ m - 1 \in 0 .. Len(f) /\ m - 1 < m
      BY <1>1, <2>3, <2>4
    <2>6. m - 1 \notin T
      BY <2>1, <2>2, <2>5
    <2>7. \E g : Walk(g, m - 1)
      BY <2>5, <2>6
    <2> QED BY <1>3, <2>3, <2>5, <2>7
  <1>5. \E g : Walk(g, Len(f))
    <2> HIDE DEF Walk
    <2> QED BY <1>1, <1>4
  <1>6. Rewritten(f, t) = CHOOSE g : Walk(g, Len(f))
    BY Zenon DEF Rewritten
  <1>7. Walk(Rewritten(f, t), Len(f))
    <2> HIDE DEF Walk
    <2> QED BY <1>5, <1>6, Zenon
  <1> QED
    BY <1>7

\* w is what a save of the tree t writes for the first m lines of the file f:
\* whole lines with the values of the tree, and one for every line with a value.
Saves(w, f, m, t) ==
    /\ w \in Seq(LineType)
    /\ \A j \in 1 .. Len(w) : /\ w[j].whole /\ HasValue(w[j])
                              /\ w[j].key \in KeysOf(f) /\ w[j].value = t[w[j].key]
    /\ \A n \in 1 .. m : HasValue(f[n]) => \E j \in 1 .. Len(w) : w[j].key = f[n].key

\* One more line of the file.
LEMMA SavesStep ==
    ASSUME NEW f \in Seq(LineType), NEW t \in Table, KeysOf(f) \subseteq DOMAIN t,
           NEW m \in 1 .. Len(f), NEW w, Saves(w, f, m - 1, t)
    PROVE  /\ HasValue(f[m]) => Saves(Append(w, Updated(f[m], t)), f, m, t)
           /\ ~HasValue(f[m]) => Saves(w, f, m, t)
  <1>1. Len(f) \in Nat /\ f[m] \in LineType /\ m \in Nat
    OBVIOUS
  <1>2. w \in Seq(LineType) /\ Len(w) \in Nat
    BY DEF Saves
  <1>3. \A n \in 1 .. m : n = m \/ n \in 1 .. m - 1
    BY <1>1
  <1>4. ASSUME ~HasValue(f[m]) PROVE Saves(w, f, m, t)
    BY <1>3, <1>4, Zenon DEF Saves
  <1>5. ASSUME HasValue(f[m]) PROVE Saves(Append(w, Updated(f[m], t)), f, m, t)
    <2> DEFINE u  == Updated(f[m], t)
               w1 == Append(w, u)
               L  == Len(w) + 1
    <2>1. f[m].key \in KeysOf(f)
      BY <1>5, KeysOfFacts
    <2>2. /\ u \in LineType /\ HasValue(u) /\ u.whole
          /\ u.key = f[m].key /\ u.value = t[f[m].key]
      BY <1>1, <1>5, <2>1, UpdatedFacts
    <2> HIDE DEF u
    <2>3. /\ w1 \in Seq(LineType) /\ Len(w1) = L
          /\ \A j \in 1 .. Len(w) : w1[j] = w[j]
          /\ w1[L] = u
      BY <1>2, <2>2
    <2>4. /\ \A j \in 1 .. L : j \in 1 .. Len(w) \/ j = L
          /\ \A j \in 1 .. Len(w) : j \in 1 .. L
          /\ L \in 1 .. L
      BY <1>2
    <2> HIDE DEF w1, L
    <2>5. \A j \in 1 .. L : /\ w1[j].whole /\ HasValue(w1[j])
                            /\ w1[j].key \in KeysOf(f) /\ w1[j].value = t[w1[j].key]
      <3> SUFFICES ASSUME NEW j \in 1 .. L
                   PROVE  /\ w1[j].whole /\ HasValue(w1[j])
                          /\ w1[j].key \in KeysOf(f) /\ w1[j].value = t[w1[j].key]
        OBVIOUS
      <3>1. CASE j = L
        BY <2>1, <2>2, <2>3, <3>1
      <3>2. CASE j \in 1 .. Len(w)
        BY <2>3, <3>2, Zenon DEF Saves
      <3> QED BY <2>4, <3>1, <3>2
    <2>6. ASSUME NEW n \in 1 .. m, HasValue(f[n]) PROVE \E j \in 1 .. L : w1[j].key = f[n].key
      <3>1. CASE n = m
        BY <2>2, <2>3, <2>4, <3>1
      <3>2. CASE n \in 1 .. m - 1
        <4>1. PICK j \in 1 .. Len(w) : w[j].key = f[n].key
          BY <2>6, <3>2 DEF Saves
        <4> QED BY <2>3, <2>4, <4>1
      <3> QED BY <1>3, <3>1, <3>2
    <2>7. Saves(w1, f, m, t)
      <3>1. \A j \in 1 .. Len(w1) : /\ w1[j].whole /\ HasValue(w1[j])
                                    /\ w1[j].key \in KeysOf(f) /\ w1[j].value = t[w1[j].key]
        BY <2>3, <2>5, Zenon
      <3>2. \A n \in 1 .. m : HasValue(f[n]) => \E j \in 1 .. Len(w1) : w1[j].key = f[n].key
        BY <2>3, <2>6, Zenon
      <3> QED BY <2>3, <3>1, <3>2, Zenon DEF Saves
    <2> QED BY <2>7 DEF w1, u
  <1> QED
    BY <1>4, <1>5

\* All lines of the file.
LEMMA RewrittenFacts ==
    ASSUME NEW f \in Seq(LineType), NEW t \in Table, KeysOf(f) \subseteq DOMAIN t
    PROVE  Saves(Rewritten(f, t)[Len(f)], f, Len(f), t)
  <1> DEFINE r == Rewritten(f, t)
             T == {m \in 0 .. Len(f) : ~ Saves(r[m], f, m, t)}
  <1>1. Len(f) \in Nat
    OBVIOUS
  <1>2. r = [n \in 0 .. Len(f) |->
              IF n = 0 THEN <<>>
              ELSE IF HasValue(f[n]) THEN Append(r[n - 1], Updated(f[n], t))
              ELSE r[n - 1]]
    BY RewrittenWalk
  <1> HIDE DEF r
  <1>3. r[0] = <<>>
    BY <1>1, <1>2
  <1>4. Saves(<<>>, f, 0, t)
    BY DEF Saves
  <1>5. ASSUME NEW m \in 1 .. Len(f), Saves(r[m - 1], f, m - 1, t)
        PROVE  Saves(r[m], f, m, t)
    <2>1. m \in 0 .. Len(f) /\ m # 0
      BY <1>1
    <2>2. r[m] = IF HasValue(f[m]) THEN Append(r[m - 1], Updated(f[m], t)) ELSE r[m - 1]
      BY <1>2, <2>1
    <2>3. /\ HasValue(f[m]) => Saves(Append(r[m - 1], Updated(f[m], t)), f, m, t)
          /\ ~HasValue(f[m]) => Saves(r[m - 1], f, m, t)
      BY <1>5, SavesStep
    <2> QED BY <2>2, <2>3
  <1>6. T = {}
    <2> SUFFICES ASSUME T # {} PROVE FALSE
      OBVIOUS
    <2>1. T \subseteq Nat
      BY <1>1
    <2>2. PICK m \in T : \A k \in T : m <= k
      <3> HIDE DEF T
      <3> QED BY <2>1, LeastElement
    <2>3. m \in 0 .. Len(f) /\ ~ Saves(r[m], f, m, t)
      BY <2>2
    <2>4. m # 0
      BY <1>3, <1>4, <2>3
    <2>5. m \in 1 .. Len(f) /\ m - 1 \in 0 .. Len(f) /\ m - 1 < m
      BY <1>1, <2>3, <2>4
    <2>6. m - 1 \notin T
      BY <2>1, <2>2, <2>5
    <2>7. Saves(r[m - 1], f, m - 1, t)
      BY <2>5, <2>6
    <2> QED BY <1>5, <2>3, <2>5, <2>7
  <1>7. Saves(r[Len(f)], f, Len(f), t)
    BY <1>1, <1>6
  <1> QED
    BY <1>7 DEF r

\* Nothing is appended when the tree has the keys of the file.
LEMMA NoRest == Enumerated({}) = <<>>
  <1>1. Cardinality({}) = 0
    BY FS_EmptySet
  <1>2. \A g \in [1 .. 0 -> {}] : g = <<>>
    OBVIOUS
  <1>3. <<>> \in [1 .. 0 -> {}] /\ IsInjective(<<>>)
    BY DEF IsInjective
  <1>4. Enumerated({}) \in [1 .. 0 -> {}]
    BY <1>1, <1>3, Zenon DEF Enumerated
  <1> QED
    BY <1>2, <1>4

\* The lines of a save, when the tree has exactly the keys of the file.
LEMMA SavedFacts ==
    ASSUME NEW f \in Seq(LineType), NEW t \in Table, KeysOf(f) = DOMAIN t
    PROVE  Saves(SavedLines(f, t), f, Len(f), t)
  <1> DEFINE w == Rewritten(f, t)[Len(f)]
  <1>1. Saves(w, f, Len(f), t)
    BY RewrittenFacts
  <1>2. DOMAIN t \ KeysOf(f) = {}
    OBVIOUS
  <1>3. SavedLines(f, t) = w \o [n \in DOMAIN <<>> |-> Line(<<>>[n], t[<<>>[n]])]
    BY <1>2, NoRest, Zenon DEF SavedLines
  <1>4. [n \in DOMAIN <<>> |-> Line(<<>>[n], t[<<>>[n]])] = <<>>
    OBVIOUS
  <1>5. w \in Seq(LineType)
    BY <1>1 DEF Saves
  <1> HIDE DEF w
  <1>6. w \o <<>> = w
    BY <1>5
  <1> QED
    BY <1>1, <1>3, <1>4, <1>6

-----------------------------------------------------------------------------
(* What a save makes of the temporary file. *)

\* Two sequences of lines, one after the other.
LEMMA ConcatFacts ==
    ASSUME NEW f \in Seq(LineType), NEW w \in Seq(LineType)
    PROVE  /\ f \o w \in Seq(LineType) /\ Len(f \o w) = Len(f) + Len(w)
           /\ \A n \in 1 .. Len(f) : (f \o w)[n] = f[n]
           /\ \A j \in 1 .. Len(w) : (f \o w)[Len(f) + j] = w[j]
           /\ \A n \in 1 .. Len(f \o w) :
                n \in 1 .. Len(f) \/ \E j \in 1 .. Len(w) : n = Len(f) + j
  <1>1. Len(f) \in Nat /\ Len(w) \in Nat
    OBVIOUS
  <1>2. f \o w \in Seq(LineType) /\ Len(f \o w) = Len(f) + Len(w)
    OBVIOUS
  <1>3. \A n \in 1 .. Len(f) : (f \o w)[n] = f[n]
    OBVIOUS
  <1>4. \A j \in 1 .. Len(w) : (f \o w)[Len(f) + j] = w[j]
    BY <1>1
  <1>5. ASSUME NEW n \in 1 .. Len(f) + Len(w), n \notin 1 .. Len(f)
        PROVE  n - Len(f) \in 1 .. Len(w) /\ n = Len(f) + (n - Len(f))
    BY <1>1, <1>5
  <1>6. ASSUME NEW n \in 1 .. Len(f \o w), n \notin 1 .. Len(f)
        PROVE  \E j \in 1 .. Len(w) : n = Len(f) + j
    BY <1>2, <1>5, <1>6
  <1> QED
    BY <1>2, <1>3, <1>4, <1>6

\* Lines appended to whole lines come after them.
LEMMA AppendToWhole ==
    ASSUME NEW f \in Seq(LineType), Whole(f), NEW w
    PROVE  AppendLines(f, w) = f \o w
  <1>1. CASE f = <<>>
    BY <1>1 DEF AppendLines
  <1>2. CASE f # <<>>
    <2>1. Len(f) \in DOMAIN f
      BY <1>2
    <2>2. f[Len(f)].whole
      BY <2>1 DEF Whole
    <2> QED BY <2>2 DEF AppendLines
  <1> QED
    BY <1>1, <1>2

\* Lines appended to any lines are lines, one of them perhaps glued together.
LEMMA AppendIsFile ==
    ASSUME NEW f \in Seq(LineType), NEW w \in Seq(LineType)
    PROVE  AppendLines(f, w) \in Seq(LineType)
  <1>1. CASE f = <<>> \/ w = <<>>
    BY <1>1 DEF AppendLines
  <1>2. CASE f # <<>> /\ w # <<>>
    <2> DEFINE l == f[Len(f)]
               g == IF l.value = NoValue THEN [w[1] EXCEPT !.key = Junk]
                    ELSE [w[1] EXCEPT !.key = l.key, !.value = Junk]
    <2>1. l \in LineType /\ w[1] \in LineType
      BY <1>2
    <2>2. Junk \in AllKeys /\ Junk \in AllValues
      BY ConfigAssumption DEF AllKeys
    <2>3. g \in LineType
      BY <2>1, <2>2 DEF LineType
    <2>4. AppendLines(f, w) = IF l.whole THEN f \o w
                              ELSE SubSeq(f, 1, Len(f) - 1) \o <<g>> \o Tail(w)
      BY <1>2 DEF AppendLines
    <2> HIDE DEF l, g
    <2>5. SubSeq(f, 1, Len(f) - 1) \in Seq(LineType)
      BY <1>2
    <2>6. Tail(w) \in Seq(LineType) /\ <<g>> \in Seq(LineType)
      BY <1>2, <2>3
    <2>7. f \o w \in Seq(LineType)
      OBVIOUS
    <2> DEFINE p == SubSeq(f, 1, Len(f) - 1)
    <2>8. p \o <<g>> \o Tail(w) \in Seq(LineType)
      <3> HIDE DEF p
      <3> QED BY <2>5, <2>6 DEF p
    <2> QED BY <2>4, <2>7, <2>8
  <1> QED
    BY <1>1, <1>2

\* What a failed write leaves is a prefix of the lines, or ends in half a line.
LEMMA PrefixFacts ==
    ASSUME NEW w \in Seq(LineType), NEW p \in WrittenPrefixes(w)
    PROVE  /\ p \in Seq(LineType)
           /\ \/ p # <<>> /\ ~p[Len(p)].whole
              \/ \A j \in 1 .. Len(p) : j \in 1 .. Len(w) /\ p[j] = w[j]
  <1>1. Len(w) \in Nat /\ DOMAIN w = 1 .. Len(w)
    OBVIOUS
  <1>2. CASE \E n \in 0 .. Len(w) - 1 : p = SubSeq(w, 1, n)
    <2>1. PICK n \in 0 .. Len(w) - 1 : p = SubSeq(w, 1, n)
      BY <1>2
    <2>2. p \in Seq(LineType) /\ Len(p) = n /\ \A j \in 1 .. n : p[j] = w[j]
      BY <1>1, <2>1
    <2>3. \A j \in 1 .. n : j \in 1 .. Len(w)
      BY <1>1
    <2> QED BY <2>2, <2>3
  <1>3. CASE \E n \in DOMAIN w : \E c \in CutLines(w[n]) : p = SubSeq(w, 1, n - 1) \o <<c>>
    <2>0. PICK n \in 1 .. Len(w) : \E c \in CutLines(w[n]) : p = SubSeq(w, 1, n - 1) \o <<c>>
      BY <1>1, <1>3
    <2>1. PICK c \in CutLines(w[n]) : p = SubSeq(w, 1, n - 1) \o <<c>>
      BY <2>0
    <2>2. w[n] \in LineType
      BY <1>1
    <2>3. Junk \in AllKeys /\ Junk \in AllValues
      BY ConfigAssumption DEF AllKeys
    <2>4. c \in LineType /\ ~c.whole
      BY <2>1, <2>2, <2>3 DEF CutLines, LineType
    <2> DEFINE s == SubSeq(w, 1, n - 1)
    <2>5. s \in Seq(LineType)
      BY <1>1
    <2> HIDE DEF s
    <2>6. p = s \o <<c>>
      BY <2>1 DEF s
    <2>7. p \in Seq(LineType) /\ Len(p) = Len(s) + 1 /\ p[Len(s) + 1] = c /\ p # <<>>
      BY <2>4, <2>5, <2>6
    <2> QED BY <2>4, <2>7
  <1> QED
    BY <1>2, <1>3 DEF WrittenPrefixes

\* A file to which lines of a save were appended.
LEMMA AppendKeeps ==
    ASSUME NEW f \in Seq(LineType), Whole(f), NEW w \in Seq(LineType), NEW K,
           KeysOf(f) \subseteq K, \A j \in 1 .. Len(w) : w[j].whole /\ w[j].key \in K
    PROVE  Whole(f \o w) /\ KeysOf(f \o w) \subseteq K
  <1> DEFINE g == f \o w
  <1>1. /\ g \in Seq(LineType)
        /\ \A n \in 1 .. Len(f) : g[n] = f[n]
        /\ \A j \in 1 .. Len(w) : g[Len(f) + j] = w[j]
        /\ \A n \in 1 .. Len(g) : n \in 1 .. Len(f) \/ \E j \in 1 .. Len(w) : n = Len(f) + j
    BY ConcatFacts
  <1>2. DOMAIN f = 1 .. Len(f) /\ DOMAIN g = 1 .. Len(g)
    BY <1>1
  <1> HIDE DEF g
  <1>3. ASSUME NEW n \in 1 .. Len(g)
        PROVE  g[n].whole /\ (HasValue(g[n]) => g[n].key \in K)
    <2>1. CASE n \in 1 .. Len(f)
      <3>1. g[n] = f[n]
        BY <1>1, <2>1
      <3>2. f[n].whole
        BY <1>2, <2>1 DEF Whole
      <3>3. HasValue(f[n]) => f[n].key \in KeysOf(f)
        BY <2>1, KeysOfFacts
      <3> QED BY <3>1, <3>2, <3>3
    <2>2. CASE n \notin 1 .. Len(f)
      <3>1. PICK j \in 1 .. Len(w) : n = Len(f) + j
        BY <1>1, <2>2, Zenon
      <3> QED BY <1>1, <3>1
    <2> QED BY <2>1, <2>2
  <1>4. Whole(g)
    BY <1>2, <1>3 DEF Whole
  <1>5. \A k \in KeysOf(g) : \E n \in 1 .. Len(g) : HasValue(g[n]) /\ g[n].key = k
    BY <1>1, KeysOfFacts
  <1>6. KeysOf(g) \subseteq K
    BY <1>3, <1>5
  <1> QED
    BY <1>4, <1>6 DEF g

\* A file whose last lines are those of a save has all of the tree, whatever
\* lines of its keys come first.
LEMMA LoadSaved ==
    ASSUME NEW f \in Seq(LineType), NEW conf \in Seq(LineType), NEW t \in Table,
           KeysOf(conf) = DOMAIN t, KeysOf(f) \subseteq KeysOf(conf),
           NEW w, Saves(w, conf, Len(conf), t)
    PROVE  Load(f \o w) = ReadBack(t)
  <1> DEFINE g == f \o w
  <1>0. w \in Seq(LineType) /\ Len(f) \in Nat /\ Len(w) \in Nat
    BY DEF Saves
  <1>1. /\ g \in Seq(LineType) /\ Len(g) = Len(f) + Len(w)
        /\ \A n \in 1 .. Len(f) : g[n] = f[n]
        /\ \A j \in 1 .. Len(w) : g[Len(f) + j] = w[j]
        /\ \A n \in 1 .. Len(g) : n \in 1 .. Len(f) \/ \E j \in 1 .. Len(w) : n = Len(f) + j
    BY <1>0, ConcatFacts
  <1> HIDE DEF g
  <1>2. \A j \in 1 .. Len(w) : /\ HasValue(w[j]) /\ w[j].key \in DOMAIN t
                               /\ w[j].value = t[w[j].key]
    BY DEF Saves
  <1>3. KeysOf(g) \subseteq DOMAIN t
    <2>1. ASSUME NEW n \in 1 .. Len(g), HasValue(g[n]) PROVE g[n].key \in DOMAIN t
      <3>1. CASE n \in 1 .. Len(f)
        <4>1. f[n].key \in KeysOf(f)
          BY <1>1, <2>1, <3>1, KeysOfFacts
        <4> QED BY <1>1, <3>1, <4>1
      <3>2. CASE n \notin 1 .. Len(f)
        <4>1. PICK j \in 1 .. Len(w) : n = Len(f) + j
          BY <1>1, <3>2, Zenon
        <4> QED BY <1>1, <1>2, <4>1
      <3> QED BY <3>1, <3>2
    <2>2. \A k \in KeysOf(g) : \E n \in 1 .. Len(g) : HasValue(g[n]) /\ g[n].key = k
      BY <1>1, KeysOfFacts
    <2> QED BY <2>1, <2>2
  <1>4. ASSUME NEW k \in DOMAIN t
        PROVE  \E j \in 1 .. Len(w) : w[j].key = k
    <2>1. PICK n \in 1 .. Len(conf) : HasValue(conf[n]) /\ conf[n].key = k
      BY KeysOfFacts
    <2> QED BY <2>1, Zenon DEF Saves
  <1>5. ASSUME NEW k \in DOMAIN t
        PROVE  k \in KeysOf(g) /\ g[Max(LinesOf(g, k))].value = t[k]
    <2>1. PICK j \in 1 .. Len(w) : w[j].key = k
      BY <1>4
    <2>2. Len(f) + j \in 1 .. Len(g)
      BY <1>0, <1>1
    <2>3. g[Len(f) + j] = w[j]
      BY <1>1
    <2>4. HasValue(g[Len(f) + j]) /\ g[Len(f) + j].key = k
      BY <1>2, <2>1, <2>3
    <2>5. k \in KeysOf(g)
      BY <1>1, <2>2, <2>4, KeysOfFacts
    <2> DEFINE n == Max(LinesOf(g, k))
    <2>6. /\ n \in 1 .. Len(g) /\ HasValue(g[n]) /\ g[n].key = k
          /\ \A i \in 1 .. Len(g) : HasValue(g[i]) /\ g[i].key = k => i <= n
      BY <1>1, <2>5, LinesOfFacts
    <2> HIDE DEF n
    <2>7. Len(f) + j <= n
      BY <2>2, <2>4, <2>6
    <2>8. n \notin 1 .. Len(f)
      BY <1>0, <2>7
    <2>9. PICK i \in 1 .. Len(w) : n = Len(f) + i
      BY <1>1, <2>6, <2>8, Zenon
    <2>10. g[n] = w[i] /\ w[i].key = k /\ w[i].value = t[k]
      BY <1>1, <1>2, <2>6, <2>9
    <2> QED BY <2>5, <2>10 DEF n
  <1>6. KeysOf(g) = DOMAIN t
    BY <1>3, <1>5
  <1>7. \A k \in DOMAIN t : Load(g)[k] = AsRead[t[k]]
    <2> SUFFICES ASSUME NEW k \in DOMAIN t PROVE Load(g)[k] = AsRead[t[k]]
      OBVIOUS
    <2>1. Load(g)[k] = AsRead[g[Max(LinesOf(g, k))].value]
      BY <1>1, <1>6, LoadFacts
    <2> QED BY <1>5, <2>1
  <1>8. Load(g) = [k \in DOMAIN t |-> Load(g)[k]]
    BY <1>6 DEF Load
  <1>9. Load(g) = ReadBack(t)
    BY <1>7, <1>8 DEF ReadBack
  <1> QED
    BY <1>9 DEF g

-----------------------------------------------------------------------------
(* The daemon starts, ends and is killed. *)

\* All slots are free.
NoSlots == [i \in Slots |-> FreeSlot]
UnknownClients == [c \in Clients |-> [client[c] EXCEPT !.known = FALSE]]

\* Free slots are no transaction of anybody, and set nothing.
LEMMA NoSlotsFacts ==
    ASSUME TypeOK, NEW t, NEW b
    PROVE  /\ NoSlots \in [Slots -> Slot] /\ \A i \in Slots : NoSlots[i].id = InvalidId
           /\ Covered(NoSlots, t) /\ Recorded(NoSlots, b)
  <1>1. FreeSlot \in Slot /\ FreeSlot.id = InvalidId
    BY SlotFacts
  <1>2. NoSlots \in [Slots -> Slot] /\ \A i \in Slots : NoSlots[i] = FreeSlot
    BY <1>1 DEF NoSlots
  <1>3. \A i \in Slots : NoSlots[i].id = InvalidId
    BY <1>1, <1>2
  <1> QED
    BY <1>2, <1>3 DEF Covered, Recorded

\* The transactions a daemon that is gone has forgotten keep their ids.
LEMMA ForgottenFacts ==
    ASSUME TypeOK, SlotsInv
    PROVE  /\ UnknownClients \in [Clients -> Transaction]
           /\ \A c \in Clients : ~UnknownClients[c].known
           /\ ~collided => Linked(UnknownClients, NoSlots, now)
  <1>1. client \in [Clients -> Transaction]
    BY DEF TypeOK
  <1>2. \A c \in Clients : /\ [client[c] EXCEPT !.known = FALSE] \in Transaction
                           /\ [client[c] EXCEPT !.known = FALSE].id = client[c].id
                           /\ ~[client[c] EXCEPT !.known = FALSE].known
    BY <1>1 DEF Transaction
  <1>3. /\ UnknownClients \in [Clients -> Transaction]
        /\ \A c \in Clients : UnknownClients[c] = [client[c] EXCEPT !.known = FALSE]
    BY <1>2 DEF UnknownClients
  <1>4. \A c \in Clients : ~UnknownClients[c].known /\ UnknownClients[c].id = client[c].id
    BY <1>2, <1>3
  <1>5. \A i \in Slots : NoSlots[i].id = InvalidId
    BY NoSlotsFacts
  <1>6. ASSUME ~collided PROVE Linked(UnknownClients, NoSlots, now)
    <2>1. Linked(client, trans, now)
      BY <1>6 DEF SlotsInv
    <2>2. \A c \in Clients : UnknownClients[c].id # InvalidId
      BY <1>4, <2>1 DEF Linked, Valid
    <2>3. \A c, d \in Clients :
             UnknownClients[c].id = UnknownClients[d].id /\ UnknownClients[c].id # NoId => c = d
      BY <1>4, <2>1 DEF Linked, Apart
    <2> QED BY <1>4, <1>5, <2>2, <2>3 DEF Linked, Valid, Apart, SlotsApart, Owned, Placed
  <1> QED
    BY <1>3, <1>4, <1>6

\* The slots after the daemon has forgotten its transactions.
LEMMA ForgetSlots ==
    ASSUME TypeOK, SlotsInv, UNCHANGED <<now, collided>>, trans' = NoSlots,
           client' = UnknownClients, begun' = {}
    PROVE  /\ SlotsInv'
           /\ trans' \in [Slots -> Slot'] /\ client' \in [Clients -> Transaction']
  <1>1. Slot' = Slot /\ Transaction' = Transaction
    BY DEF Slot, Transaction
  <1>2. /\ trans' \in [Slots -> Slot] /\ \A i \in Slots : trans'[i].id = InvalidId
        /\ Covered(trans', tree') /\ Recorded(trans', begun')
    BY NoSlotsFacts
  <1>3. /\ client' \in [Clients -> Transaction] /\ \A c \in Clients : ~client'[c].known
        /\ ~collided => Linked(client', trans', now)
    BY ForgottenFacts
  <1>4. IsFiniteSet(begun')
    BY FS_EmptySet
  <1>5. SlotsInv'
    BY <1>2, <1>3, <1>4, Zenon DEF SlotsInv
  <1> QED
    BY <1>1, <1>2, <1>3, <1>5

\* The types after a step at the end of which the daemon is down.
LEMMA DownType ==
    ASSUME TypeOK, SlotsInv, UNCHANGED <<backend, now, collided>>, at' = "down", Forget,
           torn' \in BOOLEAN, durable' \in Table, spent' \in [requests : Nat, mishaps : Nat],
           disk' \in [conf : File, temp : File, db : Table \cup {NoTree}]
    PROVE  TypeOK' /\ SlotsInv'
  <1>1. /\ SlotsInv'
        /\ trans' \in [Slots -> Slot'] /\ client' \in [Clients -> Transaction']
    <2>1. trans' = NoSlots /\ client' = UnknownClients /\ begun' = {}
      BY DEF Forget, NoSlots, UnknownClients
    <2> QED BY <2>1, ForgetSlots
  <1>2. tree' = NoTree /\ changed' \in BOOLEAN
    BY DEF Forget
  <1>3. /\ backend' \in {"file", "sqlite"} /\ now' \in Nat /\ collided' \in BOOLEAN
        /\ at' \in {"down", "up", "save", "remove", "rename"}
    BY DEF TypeOK
  <1> QED
    BY <1>1, <1>2, <1>3 DEF TypeOK

\* _initConfigTree
LEMMA StartInv ==
    ASSUME Inv, Start
    PROVE  Inv'
  <1>1. TypeOK /\ SlotsInv /\ FilesInv /\ at = "down"
    BY DEF Inv, Start
  <1>2. /\ UNCHANGED <<backend, now, client, collided, begun, durable, torn, spent>>
        /\ at' = "up" /\ tree' = Stored /\ changed' = FALSE /\ trans' = NoSlots
        /\ disk' = IF backend = "file" THEN [disk EXCEPT !.conf = Content(@)] ELSE disk
    BY DEF Start, NoSlots
  <1>3. /\ disk.conf \in File /\ disk.temp \in File
        /\ disk \in [conf : File, temp : File, db : Table \cup {NoTree}]
    BY <1>1 DEF TypeOK
  <1>4. /\ Content(disk.conf) \in Seq(LineType) /\ Content(disk.conf) \in File
        /\ Content(disk.conf) # NoFile /\ Content(Content(disk.conf)) = Content(disk.conf)
    BY <1>3, ContentFacts
  <1>5. /\ disk' \in [conf : File, temp : File, db : Table \cup {NoTree}]
        /\ disk'.temp = disk.temp /\ disk'.db = disk.db
        /\ backend = "file" => disk'.conf = Content(disk.conf)
    BY <1>2, <1>3, <1>4
  <1>6. tree' \in Table /\ (backend = "file" => DOMAIN tree' = KeysOf(Content(disk.conf)))
    <2>1. CASE backend = "file"
      BY <1>2, <1>4, <2>1, LoadFacts DEF Stored
    <2>2. CASE backend # "file"
      <3>1. disk.db = durable /\ durable \in Table
        BY <1>1, <2>2 DEF FilesInv, TypeOK
      <3> QED BY <1>2, <2>2, <3>1 DEF Stored
    <2> QED BY <2>1, <2>2
  <1>7. /\ trans' \in [Slots -> Slot] /\ \A i \in Slots : trans'[i].id = InvalidId
        /\ Covered(trans', tree') /\ Recorded(trans', begun')
    BY <1>1, <1>2, NoSlotsFacts
  <1>8. TypeOK'
    <2>1. Slot' = Slot /\ Transaction' = Transaction
      BY <1>2 DEF Slot, Transaction
    <2>2. tree' # NoTree
      BY <1>6, ConfigAssumption
    <2>3. trans' \in [Slots -> Slot'] /\ client' \in [Clients -> Transaction']
      BY <1>1, <1>2, <1>7, <2>1 DEF TypeOK
    <2>4. /\ backend' \in {"file", "sqlite"} /\ now' \in Nat /\ collided' \in BOOLEAN
          /\ changed' \in BOOLEAN /\ torn' \in BOOLEAN /\ durable' \in Table
          /\ spent' \in [requests : Nat, mishaps : Nat]
      BY <1>1, <1>2 DEF TypeOK
    <2> QED BY <1>2, <1>5, <1>6, <2>2, <2>3, <2>4 DEF TypeOK
  <1>9. ASSUME ~collided PROVE Linked(client', trans', now')
    <2>1. Linked(client, trans, now) /\ \A i \in Slots : trans[i].id = InvalidId
      BY <1>1, <1>9 DEF SlotsInv
    <2>2. \A c \in Clients : client[c].id # InvalidId
      BY <2>1 DEF Linked, Valid
    <2>3. \A c \in Clients : ~(client[c].known /\ client[c].began + TimeOut >= now)
      BY <2>1, <2>2 DEF Linked, Placed
    <2>4. Linked(client, trans', now)
      BY <1>7, <2>1, <2>2, <2>3, Zenon DEF Linked, Valid, Apart, SlotsApart, Owned, Placed
    <2> QED BY <1>2, <2>4
  <1>10. SlotsInv'
    BY <1>1, <1>2, <1>7, <1>9, Zenon DEF SlotsInv
  <1>11. FilesInv'
    <2>1. CASE backend = "file"
      <3>1. disk'.conf # NoFile /\ DOMAIN tree' = KeysOf(disk'.conf)
        BY <1>4, <1>5, <1>6, <2>1
      <3>2. Content(disk'.conf) = Content(disk.conf)
        BY <1>4, <1>5, <2>1
      <3>3. ~torn => /\ disk.temp # NoFile => Whole(disk.temp)
                     /\ KeysOf(Content(disk.temp)) \subseteq KeysOf(Content(disk.conf))
                     /\ Load(Content(disk.conf)) = ReadBack(durable)
        BY <1>1, <2>1 DEF FilesInv
      <3>4. ~torn' => /\ disk'.temp # NoFile => Whole(disk'.temp)
                      /\ KeysOf(Content(disk'.temp)) \subseteq KeysOf(Content(disk'.conf))
                      /\ Load(Content(disk'.conf)) = ReadBack(durable')
        BY <1>2, <1>5, <3>2, <3>3
      <3> QED BY <1>2, <2>1, <3>1, <3>4 DEF FilesInv
    <2>2. CASE backend # "file"
      BY <1>1, <1>2, <1>5, <2>2 DEF FilesInv, TypeOK
    <2> QED BY <2>1, <2>2
  <1> QED
    BY <1>8, <1>10, <1>11 DEF Inv

\* finiConfigTree up to the save
LEMMA StopInv ==
    ASSUME Inv, Stop
    PROVE  Inv'
  <1>1. TypeOK /\ SlotsInv /\ FilesInv /\ at = "up" /\ tree \in Table /\ tree # NoTree
    BY UpTree DEF Inv, Stop
  <1>2. UNCHANGED <<backend, disk, now, collided, durable, torn, spent>>
    BY DEF Stop
  <1>3. CASE at' = "down" /\ Forget
    <2>1. /\ torn' \in BOOLEAN /\ durable' \in Table
          /\ spent' \in [requests : Nat, mishaps : Nat]
          /\ disk' \in [conf : File, temp : File, db : Table \cup {NoTree}]
      BY <1>1, <1>2 DEF TypeOK
    <2>2. TypeOK' /\ SlotsInv'
      BY <1>1, <1>2, <1>3, <2>1, DownType
    <2>3. FilesInv'
      BY <1>1, <1>2, <1>3 DEF FilesInv
    <2> QED BY <2>2, <2>3 DEF Inv
  <1>4. CASE /\ at' = "save" /\ trans' = NoSlots /\ client' = UnknownClients /\ begun' = {}
             /\ UNCHANGED <<tree, changed>>
    <2>1. /\ SlotsInv'
          /\ trans' \in [Slots -> Slot'] /\ client' \in [Clients -> Transaction']
      BY <1>1, <1>2, <1>4, ForgetSlots
    <2>2. /\ backend' \in {"file", "sqlite"} /\ now' \in Nat /\ collided' \in BOOLEAN
          /\ changed' \in BOOLEAN /\ torn' \in BOOLEAN /\ durable' \in Table
          /\ spent' \in [requests : Nat, mishaps : Nat]
          /\ disk' \in [conf : File, temp : File, db : Table \cup {NoTree}]
      BY <1>1, <1>2, <1>4 DEF TypeOK
    <2>3. TypeOK'
      BY <1>1, <1>4, <2>1, <2>2 DEF TypeOK
    <2>4. FilesInv'
      BY <1>1, <1>2, <1>4 DEF FilesInv
    <2> QED BY <2>1, <2>3, <2>4 DEF Inv
  <1> QED
    BY <1>3, <1>4 DEF Stop, NoSlots, UnknownClients

\* What is known at the beginning of a save to the file.
LEMMA SaveFacts ==
    ASSUME TypeOK, FilesInv, at = "save", backend = "file"
    PROVE  /\ disk.conf \in Seq(LineType) /\ Content(disk.conf) = disk.conf
           /\ disk.conf # NoFile /\ disk.temp \in File
           /\ Content(disk.temp) \in Seq(LineType)
           /\ tree \in Table /\ DOMAIN tree = KeysOf(disk.conf)
           /\ Saves(SavedLines(Content(disk.conf), tree), disk.conf, Len(disk.conf), tree)
           /\ ~torn => /\ Whole(Content(disk.temp))
                       /\ KeysOf(Content(disk.temp)) \subseteq KeysOf(disk.conf)
                       /\ Load(disk.conf) = ReadBack(durable)
  <1>1. disk.conf \in File /\ disk.temp \in File /\ tree \in Table
    BY DEF TypeOK
  <1>2. disk.conf # NoFile /\ DOMAIN tree = KeysOf(disk.conf)
    BY DEF FilesInv
  <1>3. disk.conf \in Seq(LineType)
    BY <1>1, <1>2 DEF File
  <1>4. Content(disk.conf) = disk.conf /\ Content(disk.temp) \in Seq(LineType)
    BY <1>1, <1>2, ContentFacts
  <1>5. Saves(SavedLines(Content(disk.conf), tree), disk.conf, Len(disk.conf), tree)
    BY <1>1, <1>2, <1>3, <1>4, SavedFacts
  <1>6. ASSUME ~torn
        PROVE  /\ Whole(Content(disk.temp))
               /\ KeysOf(Content(disk.temp)) \subseteq KeysOf(disk.conf)
               /\ Load(disk.conf) = ReadBack(durable)
    <2>1. /\ disk.temp # NoFile => Whole(disk.temp)
          /\ KeysOf(Content(disk.temp)) \subseteq KeysOf(Content(disk.conf))
          /\ Load(Content(disk.conf)) = ReadBack(durable)
      BY <1>6 DEF FilesInv
    <2>2. Whole(Content(disk.temp))
      BY <2>1, EmptyFile DEF Content
    <2> QED BY <1>4, <2>1, <2>2
  <1> QED
    BY <1>1, <1>2, <1>3, <1>4, <1>5, <1>6

\* The temporary file a save has written to the end.
LEMMA FullTemp ==
    ASSUME TypeOK, FilesInv, at = "save", backend = "file", NEW w, NEW temp,
           w = SavedLines(Content(disk.conf), tree), temp = AppendLines(Content(disk.temp), w)
    PROVE  /\ temp \in Seq(LineType)
           /\ ~torn => /\ Whole(temp) /\ KeysOf(temp) \subseteq KeysOf(disk.conf)
                       /\ Load(temp) = ReadBack(tree)
  <1> DEFINE f == Content(disk.temp)
             conf == disk.conf
  <1>1. /\ conf \in Seq(LineType) /\ f \in Seq(LineType) /\ tree \in Table
        /\ KeysOf(conf) = DOMAIN tree
        /\ Saves(w, conf, Len(conf), tree)
        /\ ~torn => Whole(f) /\ KeysOf(f) \subseteq KeysOf(conf)
    BY SaveFacts
  <1>2. temp = AppendLines(f, w)
    OBVIOUS
  <1> HIDE DEF f, conf
  <1>3. /\ w \in Seq(LineType)
        /\ \A j \in 1 .. Len(w) : w[j].whole /\ w[j].key \in KeysOf(conf)
    BY <1>1 DEF Saves
  <1>4. temp \in Seq(LineType)
    BY <1>1, <1>2, <1>3, AppendIsFile
  <1>5. ASSUME ~torn
        PROVE  Whole(temp) /\ KeysOf(temp) \subseteq KeysOf(conf) /\ Load(temp) = ReadBack(tree)
    <2>1. Whole(f) /\ KeysOf(f) \subseteq KeysOf(conf)
      BY <1>1, <1>5
    <2>2. temp = f \o w
      BY <1>1, <1>2, <2>1, AppendToWhole
    <2>3. Whole(temp) /\ KeysOf(temp) \subseteq KeysOf(conf)
      BY <1>1, <1>3, <2>1, <2>2, AppendKeeps
    <2>4. Load(temp) = ReadBack(tree)
      <3>1. KeysOf(conf) = DOMAIN tree /\ Saves(w, conf, Len(conf), tree)
        BY <1>1
      <3>2. conf \in Seq(LineType) /\ f \in Seq(LineType) /\ tree \in Table
        BY <1>1
      <3>3. Load(f \o w) = ReadBack(tree)
        BY <2>1, <3>1, <3>2, LoadSaved
      <3> QED BY <2>2, <3>3
    <2> QED BY <2>3, <2>4
  <1> QED
    BY <1>4, <1>5 DEF conf

\* The temporary file of a save that is cut off: still whole and without other
\* keys, unless it ends in half a line.
LEMMA PartTemp ==
    ASSUME TypeOK, FilesInv, at = "save", backend = "file", NEW temp,
           NEW p \in WrittenPrefixes(SavedLines(Content(disk.conf), tree)),
           temp = AppendLines(Content(disk.temp), p)
    PROVE  /\ temp \in Seq(LineType)
           /\ ~torn /\ ~CutAtEnd(temp) => Whole(temp) /\ KeysOf(temp) \subseteq KeysOf(disk.conf)
  <1> DEFINE f == Content(disk.temp)
             conf == disk.conf
             w == SavedLines(Content(disk.conf), tree)
  <1>1. /\ f \in Seq(LineType) /\ Saves(w, conf, Len(conf), tree)
        /\ ~torn => Whole(f) /\ KeysOf(f) \subseteq KeysOf(conf)
    BY SaveFacts
  <1>2. temp = AppendLines(f, p) /\ p \in WrittenPrefixes(w)
    OBVIOUS
  <1> HIDE DEF f, conf, w
  <1>3. /\ w \in Seq(LineType)
        /\ \A j \in 1 .. Len(w) : w[j].whole /\ w[j].key \in KeysOf(conf)
    BY <1>1 DEF Saves
  <1>4. /\ p \in Seq(LineType)
        /\ \/ p # <<>> /\ ~p[Len(p)].whole
           \/ \A j \in 1 .. Len(p) : j \in 1 .. Len(w) /\ p[j] = w[j]
    BY <1>2, <1>3, PrefixFacts
  <1>5. temp \in Seq(LineType)
    BY <1>1, <1>2, <1>4, AppendIsFile
  <1>6. ASSUME ~torn, ~CutAtEnd(temp)
        PROVE  Whole(temp) /\ KeysOf(temp) \subseteq KeysOf(conf)
    <2>1. Whole(f) /\ KeysOf(f) \subseteq KeysOf(conf)
      BY <1>1, <1>6
    <2>2. temp = f \o p
      BY <1>1, <1>2, <2>1, AppendToWhole
    <2>3. ASSUME p # <<>>, ~p[Len(p)].whole PROVE FALSE
      <3>0. p \in Seq(LineType) /\ f \in Seq(LineType)
        BY <1>1, <1>4
      <3>1. Len(p) \in 1 .. Len(p)
        BY <2>3, <3>0
      <3>2. Len(temp) = Len(f) + Len(p) /\ temp[Len(f) + Len(p)] = p[Len(p)]
        BY <2>2, <3>0, <3>1, ConcatFacts
      <3>3. temp # <<>>
        BY <3>0, <3>1, <3>2
      <3>4. temp # NoFile
        BY <1>5, ConfigAssumption
      <3> QED BY <1>6, <2>3, <3>2, <3>3, <3>4 DEF CutAtEnd
    <2>4. \A j \in 1 .. Len(p) : p[j].whole /\ p[j].key \in KeysOf(conf)
      BY <1>3, <1>4, <2>3
    <2> QED BY <1>1, <1>4, <2>1, <2>2, <2>4, AppendKeeps
  <1> QED
    BY <1>5, <1>6 DEF conf

\* The types and the slots after a step of a save that does not end it.
LEMMA SaveType ==
    ASSUME TypeOK, SlotsInv, at \in {"save", "remove"}, at' \in {"remove", "rename"},
           UNCHANGED <<backend, tree, changed, trans, now, client, collided, begun, durable>>,
           torn' \in BOOLEAN, spent' \in [requests : Nat, mishaps : Nat],
           disk' \in [conf : File, temp : File, db : Table \cup {NoTree}]
    PROVE  TypeOK' /\ SlotsInv'
  <1>1. Slot' = Slot /\ Transaction' = Transaction
    BY DEF Slot, Transaction
  <1>2. tree' \in Table /\ tree' # NoTree
    BY DEF TypeOK
  <1>3. /\ backend' \in {"file", "sqlite"} /\ now' \in Nat /\ collided' \in BOOLEAN
        /\ changed' \in BOOLEAN /\ durable' \in Table
        /\ trans' \in [Slots -> Slot'] /\ client' \in [Clients -> Transaction']
    BY <1>1 DEF TypeOK
  <1>4. TypeOK'
    BY <1>2, <1>3 DEF TypeOK
  <1>5. SlotsInv'
    BY DEF SlotsInv
  <1> QED
    BY <1>4, <1>5

\* The numbers that count are numbers.
LEMMA SpentFacts ==
    ASSUME TypeOK
    PROVE  /\ spent \in [requests : Nat, mishaps : Nat]
           /\ [spent EXCEPT !.mishaps = @ + 1] \in [requests : Nat, mishaps : Nat]
           /\ [spent EXCEPT !.mishaps = @ + 1].requests = spent.requests
           /\ [spent EXCEPT !.requests = @ + 1].requests # spent.requests
  BY DEF TypeOK

\* _writeKeyValueToFilePersistency, whether all is written or not
LEMMA WriteTempInv ==
    ASSUME Inv, WriteTemp
    PROVE  Inv'
  <1> DEFINE w == SavedLines(Content(disk.conf), tree)
  <1>1. TypeOK /\ SlotsInv /\ FilesInv /\ at = "save" /\ backend = "file"
    BY DEF Inv, WriteTemp
  <1>2. UNCHANGED <<backend, now, reply, collided, durable>>
    BY DEF WriteTemp
  <1>3. /\ disk.conf \in Seq(LineType) /\ Content(disk.conf) = disk.conf /\ disk.conf # NoFile
        /\ DOMAIN tree = KeysOf(disk.conf) /\ disk.db \in Table \cup {NoTree}
        /\ ~torn => Load(disk.conf) = ReadBack(durable)
    BY <1>1, SaveFacts DEF TypeOK
  <1>4. \/ /\ at' = "remove"
           /\ disk' = [conf |-> Content(disk.conf), db |-> disk.db,
                       temp |-> AppendLines(Content(disk.temp), w)]
           /\ UNCHANGED <<tree, changed, trans, client, begun, torn, spent>>
        \/ /\ spent' = [spent EXCEPT !.mishaps = @ + 1]
           /\ \E p \in WrittenPrefixes(w) :
                disk' = [conf |-> Content(disk.conf), db |-> disk.db,
                         temp |-> AppendLines(Content(disk.temp), p)]
           /\ \/ at' = "down" /\ Forget /\ torn' = (torn \/ CutAtEnd(disk'.temp))
              \/ /\ at' = "remove" /\ torn' = TRUE
                 /\ UNCHANGED <<tree, changed, trans, client, begun>>
    BY DEF WriteTemp
  <1>5. ASSUME NEW temp \in Seq(LineType),
               disk' = [conf |-> Content(disk.conf), db |-> disk.db, temp |-> temp]
        PROVE  /\ disk' \in [conf : File, temp : File, db : Table \cup {NoTree}]
               /\ disk'.conf = disk.conf /\ disk'.temp = temp
               /\ disk'.temp # NoFile /\ Content(disk'.temp) = temp
    <2>1. temp \in File /\ temp # NoFile /\ disk.conf \in File
      BY <1>3, ConfigAssumption DEF File
    <2> QED BY <1>3, <1>5, <2>1 DEF Content
  <1> HIDE DEF w
  <1>6. CASE /\ at' = "remove"
             /\ disk' = [conf |-> Content(disk.conf), db |-> disk.db,
                         temp |-> AppendLines(Content(disk.temp), w)]
             /\ UNCHANGED <<tree, changed, trans, client, begun, torn, spent>>
    <2> DEFINE temp == AppendLines(Content(disk.temp), w)
    <2>1. /\ temp \in Seq(LineType)
          /\ ~torn => /\ Whole(temp) /\ KeysOf(temp) \subseteq KeysOf(disk.conf)
                      /\ Load(temp) = ReadBack(tree)
      BY <1>1, FullTemp DEF w
    <2>2. disk' = [conf |-> Content(disk.conf), db |-> disk.db, temp |-> temp]
      BY <1>6
    <2> HIDE DEF temp
    <2>3. /\ disk' \in [conf : File, temp : File, db : Table \cup {NoTree}]
          /\ disk'.conf = disk.conf /\ disk'.temp = temp
          /\ disk'.temp # NoFile /\ Content(disk'.temp) = temp
      BY <1>5, <2>1, <2>2
    <2>4. TypeOK' /\ SlotsInv'
      <3>1. torn' \in BOOLEAN /\ spent' \in [requests : Nat, mishaps : Nat]
        BY <1>1, <1>6 DEF TypeOK
      <3> QED BY <1>1, <1>2, <1>6, <2>3, <3>1, SaveType
    <2>5. disk'.conf # NoFile /\ DOMAIN tree' = KeysOf(disk'.conf)
      BY <1>3, <1>6, <2>3
    <2>6. ASSUME ~torn'
          PROVE  /\ disk'.temp # NoFile /\ Whole(disk'.temp)
                 /\ KeysOf(Content(disk'.temp)) \subseteq KeysOf(Content(disk'.conf))
                 /\ Load(Content(disk'.conf)) = ReadBack(durable')
                 /\ Load(disk'.temp) = ReadBack(tree')
      BY <1>2, <1>3, <1>6, <2>1, <2>3, <2>6
    <2>7. FilesInv'
      BY <1>1, <1>2, <1>6, <2>5, <2>6, Zenon DEF FilesInv
    <2> QED BY <2>4, <2>7 DEF Inv
  <1>7. ASSUME spent' = [spent EXCEPT !.mishaps = @ + 1],
               NEW p \in WrittenPrefixes(w),
               disk' = [conf |-> Content(disk.conf), db |-> disk.db,
                        temp |-> AppendLines(Content(disk.temp), p)],
               \/ at' = "down" /\ Forget /\ torn' = (torn \/ CutAtEnd(disk'.temp))
               \/ /\ at' = "remove" /\ torn' = TRUE
                  /\ UNCHANGED <<tree, changed, trans, client, begun>>
        PROVE  Inv'
    <2> DEFINE temp == AppendLines(Content(disk.temp), p)
    <2>1. /\ temp \in Seq(LineType)
          /\ ~torn /\ ~CutAtEnd(temp) =>
               Whole(temp) /\ KeysOf(temp) \subseteq KeysOf(disk.conf)
      BY <1>1, PartTemp DEF w
    <2>2. disk' = [conf |-> Content(disk.conf), db |-> disk.db, temp |-> temp]
      BY <1>7
    <2> HIDE DEF temp
    <2>3. /\ disk' \in [conf : File, temp : File, db : Table \cup {NoTree}]
          /\ disk'.conf = disk.conf /\ disk'.temp = temp
          /\ disk'.temp # NoFile /\ Content(disk'.temp) = temp
      BY <1>5, <2>1, <2>2
    <2>4. spent' \in [requests : Nat, mishaps : Nat]
      BY <1>1, <1>7, SpentFacts
    <2>5. CASE at' = "down" /\ Forget /\ torn' = (torn \/ CutAtEnd(disk'.temp))
      <3>1. torn' \in BOOLEAN /\ (~torn' => ~torn /\ ~CutAtEnd(temp))
        BY <1>1, <2>3, <2>5 DEF TypeOK
      <3>2. TypeOK' /\ SlotsInv'
        <4>1. durable' \in Table
          BY <1>1, <1>2 DEF TypeOK
        <4> QED BY <1>1, <1>2, <2>3, <2>4, <2>5, <3>1, <4>1, DownType
      <3>3. ASSUME ~torn'
            PROVE  /\ Whole(disk'.temp)
                   /\ KeysOf(Content(disk'.temp)) \subseteq KeysOf(Content(disk'.conf))
                   /\ Load(Content(disk'.conf)) = ReadBack(durable')
        BY <1>2, <1>3, <2>1, <2>3, <3>1, <3>3
      <3>4. FilesInv'
        BY <1>1, <1>2, <2>5, <3>3 DEF FilesInv
      <3> QED BY <3>2, <3>4 DEF Inv
    <2>6. CASE /\ at' = "remove" /\ torn' = TRUE
               /\ UNCHANGED <<tree, changed, trans, client, begun>>
      <3>1. torn' \in BOOLEAN
        BY <2>6
      <3>2. TypeOK' /\ SlotsInv'
        BY <1>1, <1>2, <2>3, <2>4, <2>6, <3>1, SaveType
      <3>3. disk'.conf # NoFile /\ DOMAIN tree' = KeysOf(disk'.conf)
        BY <1>3, <2>3, <2>6
      <3>4. FilesInv'
        BY <1>1, <1>2, <2>6, <3>3 DEF FilesInv
      <3> QED BY <3>2, <3>4 DEF Inv
    <2> QED BY <1>7, <2>5, <2>6
  <1> QED
    BY <1>4, <1>6, <1>7

\* jf_file_remove of the original file
LEMMA RemoveConfInv ==
    ASSUME Inv, RemoveConf
    PROVE  Inv'
  <1>1. TypeOK /\ SlotsInv /\ FilesInv /\ at = "remove" /\ at' = "rename"
    BY DEF Inv, RemoveConf
  <1>2. /\ UNCHANGED <<backend, tree, changed, trans, now, client, reply, collided, begun,
                       durable, torn, spent>>
        /\ disk' = [disk EXCEPT !.conf = NoFile]
    BY DEF RemoveConf
  <1>3. /\ disk' \in [conf : File, temp : File, db : Table \cup {NoTree}]
        /\ disk'.temp = disk.temp
    BY <1>1, <1>2 DEF TypeOK, File
  <1>4. TypeOK' /\ SlotsInv'
    <2>1. torn' \in BOOLEAN /\ spent' \in [requests : Nat, mishaps : Nat]
      BY <1>1, <1>2 DEF TypeOK
    <2> QED BY <1>1, <1>2, <1>3, <2>1, SaveType
  <1>5. backend = "file"
    BY <1>1 DEF FilesInv, TypeOK
  <1>6. ~torn => /\ disk.temp # NoFile /\ Whole(disk.temp)
                 /\ Load(disk.temp) = ReadBack(tree)
    BY <1>1, <1>5 DEF FilesInv
  <1>7. FilesInv'
    BY <1>1, <1>2, <1>3, <1>5, <1>6 DEF FilesInv
  <1> QED
    BY <1>4, <1>7 DEF Inv

\* jf_file_rename of the temporary file
LEMMA RenameTempInv ==
    ASSUME Inv, RenameTemp
    PROVE  Inv'
  <1>1. TypeOK /\ SlotsInv /\ FilesInv /\ at = "rename" /\ at' = "down" /\ Forget
    BY DEF Inv, RenameTemp
  <1>2. /\ UNCHANGED <<backend, now, reply, collided, torn, spent>>
        /\ disk' = [disk EXCEPT !.conf = disk.temp, !.temp = NoFile]
        /\ durable' = tree
    BY DEF RenameTemp
  <1>3. /\ disk' \in [conf : File, temp : File, db : Table \cup {NoTree}]
        /\ disk'.conf = disk.temp /\ disk'.temp = NoFile
    BY <1>1, <1>2 DEF TypeOK, File
  <1>4. tree \in Table
    BY <1>1 DEF TypeOK
  <1>5. TypeOK' /\ SlotsInv'
    <2>1. /\ torn' \in BOOLEAN /\ spent' \in [requests : Nat, mishaps : Nat]
          /\ durable' \in Table
      BY <1>1, <1>2, <1>4 DEF TypeOK
    <2> QED BY <1>1, <1>2, <1>3, <2>1, DownType
  <1>6. backend = "file"
    BY <1>1 DEF FilesInv, TypeOK
  <1>7. ASSUME ~torn'
        PROVE  /\ KeysOf(Content(disk'.temp)) \subseteq KeysOf(Content(disk'.conf))
               /\ Load(Content(disk'.conf)) = ReadBack(durable')
    <2>1. disk.temp # NoFile /\ Load(disk.temp) = ReadBack(tree)
      BY <1>1, <1>2, <1>6, <1>7 DEF FilesInv
    <2>2. Content(disk'.conf) = disk.temp /\ KeysOf(Content(disk'.temp)) = {}
      BY <1>3, <2>1, EmptyFile DEF Content
    <2> QED BY <1>2, <2>1, <2>2
  <1>8. FilesInv'
    BY <1>1, <1>2, <1>3, <1>6, <1>7 DEF FilesInv
  <1> QED
    BY <1>5, <1>8 DEF Inv

\* The transaction of the database, whether it fails or not
LEMMA SaveSqliteInv ==
    ASSUME Inv, SaveSqlite
    PROVE  Inv'
  <1>1. TypeOK /\ SlotsInv /\ FilesInv /\ at' = "down" /\ Forget /\ at = "save"
    BY DEF Inv, SaveSqlite
  <1>2. /\ UNCHANGED <<backend, now, reply, collided, torn, spent>> /\ backend = "sqlite"
        /\ \/ UNCHANGED <<disk, durable>>
           \/ disk' = [disk EXCEPT !.db = Merge(@, tree)] /\ durable' = Merge(disk.db, tree)
    BY DEF SaveSqlite
  <1>3. disk.db = durable /\ durable \in Table /\ tree \in Table
    BY <1>1, <1>2 DEF FilesInv, TypeOK
  <1>4. Merge(disk.db, tree) \in Table
    BY <1>3, MergeFacts
  <1>5. /\ disk' \in [conf : File, temp : File, db : Table \cup {NoTree}]
        /\ disk'.db = durable' /\ durable' \in Table
    BY <1>1, <1>2, <1>3, <1>4 DEF TypeOK
  <1>6. TypeOK' /\ SlotsInv'
    <2>1. torn' \in BOOLEAN /\ spent' \in [requests : Nat, mishaps : Nat]
      BY <1>1, <1>2 DEF TypeOK
    <2> QED BY <1>1, <1>2, <1>5, <2>1, DownType
  <1>7. FilesInv'
    BY <1>1, <1>2, <1>5 DEF FilesInv
  <1> QED
    BY <1>6, <1>7 DEF Inv

\* The daemon is killed.
LEMMA CrashInv ==
    ASSUME Inv, Crash
    PROVE  Inv'
  <1> DEFINE w == SavedLines(Content(disk.conf), tree)
  <1>1. TypeOK /\ SlotsInv /\ FilesInv /\ at # "down" /\ at' = "down" /\ Forget
    BY DEF Inv, Crash
  <1>2. /\ UNCHANGED <<backend, now, collided, durable>>
        /\ spent' = [spent EXCEPT !.mishaps = @ + 1]
        /\ torn' = (torn \/ at = "rename" \/ CutAtEnd(disk'.temp))
        /\ \/ UNCHANGED disk
           \/ /\ at = "save" /\ backend = "file"
              /\ \E p \in WrittenPrefixes(w) :
                   disk' = [disk EXCEPT !.temp = AppendLines(Content(@), p)]
    BY DEF Crash
  <1>3. torn' \in BOOLEAN /\ (~torn' => ~torn /\ at # "rename" /\ ~CutAtEnd(disk'.temp))
    BY <1>1, <1>2 DEF TypeOK
  <1>4. spent' \in [requests : Nat, mishaps : Nat] /\ durable' \in Table
    <2>1. spent' \in [requests : Nat, mishaps : Nat]
      BY <1>1, <1>2, SpentFacts
    <2> QED BY <1>1, <1>2, <2>1 DEF TypeOK
  <1>5. disk \in [conf : File, temp : File, db : Table \cup {NoTree}]
    BY <1>1 DEF TypeOK
  <1> HIDE DEF w
  <1>6. CASE UNCHANGED disk
    <2>1. TypeOK' /\ SlotsInv'
      BY <1>1, <1>2, <1>3, <1>4, <1>5, <1>6, DownType
    <2>2. FilesInv'
      BY <1>1, <1>2, <1>3, <1>6 DEF FilesInv
    <2> QED BY <2>1, <2>2 DEF Inv
  <1>7. ASSUME at = "save", backend = "file", NEW p \in WrittenPrefixes(w),
               disk' = [disk EXCEPT !.temp = AppendLines(Content(@), p)]
        PROVE  Inv'
    <2> DEFINE temp == AppendLines(Content(disk.temp), p)
    <2>1. /\ temp \in Seq(LineType)
          /\ ~torn /\ ~CutAtEnd(temp) =>
               Whole(temp) /\ KeysOf(temp) \subseteq KeysOf(disk.conf)
      BY <1>1, <1>7, PartTemp DEF w
    <2>2. /\ Content(disk.conf) = disk.conf
          /\ ~torn => Load(disk.conf) = ReadBack(durable)
      BY <1>1, <1>7, SaveFacts
    <2>3. disk' = [disk EXCEPT !.temp = temp]
      BY <1>5, <1>7
    <2> HIDE DEF temp
    <2>4. temp \in File /\ temp # NoFile
      BY <2>1, ConfigAssumption DEF File
    <2>5. /\ disk' \in [conf : File, temp : File, db : Table \cup {NoTree}]
          /\ disk'.conf = disk.conf /\ disk'.temp = temp /\ Content(disk'.temp) = temp
      BY <1>5, <2>3, <2>4 DEF Content
    <2>6. TypeOK' /\ SlotsInv'
      BY <1>1, <1>2, <1>3, <1>4, <2>5, DownType
    <2>7. ASSUME ~torn'
          PROVE  /\ Whole(disk'.temp)
                 /\ KeysOf(Content(disk'.temp)) \subseteq KeysOf(Content(disk'.conf))
                 /\ Load(Content(disk'.conf)) = ReadBack(durable')
      <3>1. ~torn /\ ~CutAtEnd(temp)
        BY <1>3, <2>5, <2>7
      <3> QED BY <1>2, <2>1, <2>2, <2>5, <3>1
    <2>8. FilesInv'
      BY <1>1, <1>2, <1>7, <2>7 DEF FilesInv
    <2> QED BY <2>6, <2>8 DEF Inv
  <1> QED
    BY <1>2, <1>6, <1>7

\* A new installation: any configuration file of whole lines, or none.
LEMMA InitInv ==
    ASSUME Init
    PROVE  Inv
  <1>1. /\ backend \in {"file", "sqlite"} /\ at = "down" /\ tree = NoTree /\ now = 0
        /\ trans = NoSlots /\ client = [c \in Clients |-> NoTransaction] /\ begun = {}
        /\ spent = [requests |-> 0, mishaps |-> 0] /\ durable = Stored
    BY DEF Init, NoSlots
  <1>2. changed = FALSE /\ collided = FALSE /\ torn = FALSE
    BY DEF Init
  <1>3. PICK f \in InitFiles :
          disk = IF backend = "file" THEN [conf |-> f, temp |-> NoFile, db |-> NoTree]
                 ELSE [conf |-> NoFile, temp |-> NoFile, db |-> Load(Content(f))]
    BY DEF Init
  <1>4. f \in File /\ NoFile \in File
    BY ConfigAssumption DEF File
  <1>5. Content(f) \in Seq(LineType)
    BY <1>4, ContentFacts
  <1>6. /\ Load(Content(f)) \in Table
        /\ ReadBack(Load(Content(f))) = Load(Content(f))
    BY <1>5, LoadFacts
  <1>7. /\ disk \in [conf : File, temp : File, db : Table \cup {NoTree}]
        /\ disk.temp = NoFile
        /\ backend = "file" => disk.conf = f
        /\ backend = "sqlite" => disk.db = Load(Content(f))
    BY <1>1, <1>3, <1>4, <1>6
  <1>8. durable = Load(Content(f))
    BY <1>1, <1>7 DEF Stored
  <1>9. FreeSlot \in Slot /\ FreeSlot.id = InvalidId
    <2>1. 0 \in 0 .. now /\ InvalidId \in Ids
      BY <1>1, ConfigAssumption
    <2> QED BY <2>1 DEF FreeSlot, Slot
  <1>10. /\ NoTransaction \in Transaction /\ NoTransaction.id = NoId
         /\ ~NoTransaction.known
    BY <1>1, NoTransactionFacts
  <1>11. /\ trans \in [Slots -> Slot] /\ \A i \in Slots : trans[i].id = InvalidId
         /\ client \in [Clients -> Transaction]
         /\ \A c \in Clients : client[c].id = NoId /\ ~client[c].known
    BY <1>1, <1>9, <1>10 DEF NoSlots
  <1>12. TypeOK
    <2>1. /\ changed \in BOOLEAN /\ collided \in BOOLEAN /\ torn \in BOOLEAN
          /\ spent \in [requests : Nat, mishaps : Nat] /\ now \in Nat
      BY <1>1, <1>2
    <2>2. /\ tree \in Table \cup {NoTree} /\ (tree = NoTree <=> at = "down")
          /\ at \in {"down", "up", "save", "remove", "rename"}
      BY <1>1
    <2>3. durable \in Table
      BY <1>6, <1>8
    <2> QED BY <1>1, <1>7, <1>11, <2>1, <2>2, <2>3 DEF TypeOK
  <1>13. SlotsInv
    <2>1. InvalidId # NoId
      BY ConfigAssumption
    <2>2. Linked(client, trans, now)
      <3>1. Valid(client) /\ Apart(client) /\ SlotsApart(trans)
        BY <1>11, <2>1 DEF Valid, Apart, SlotsApart
      <3>2. Owned(client, trans) /\ Placed(client, trans, now)
        BY <1>11, <2>1 DEF Owned, Placed
      <3> QED BY <3>1, <3>2 DEF Linked
    <2>3. Recorded(trans, begun) /\ Covered(trans, tree)
      BY <1>11 DEF Recorded, Covered
    <2>4. IsFiniteSet(begun)
      BY <1>1, FS_EmptySet
    <2> QED BY <1>11, <2>2, <2>3, <2>4 DEF SlotsInv
  <1>14. FilesInv
    <2>1. KeysOf(Content(disk.temp)) = {}
      BY <1>7, EmptyFile DEF Content
    <2> QED BY <1>1, <1>6, <1>7, <1>8, <2>1 DEF FilesInv
  <1> QED
    BY <1>12, <1>13, <1>14 DEF Inv

\* No step breaks the invariant.
LEMMA NextInv ==
    ASSUME Inv, [Next]_vars
    PROVE  Inv'
  <1>1. CASE Serve
    <2>1. PICK c \in Clients :
            \/ StartTransaction(c) \/ CommitTransaction(c) \/ RollbackTransaction(c) \/ Abandon(c)
            \/ \E k \in Keys : Get(c, k)
            \/ \E k \in Keys, v \in Values : SetDirect(c, k, v) \/ SetInTransaction(c, k, v)
      BY <1>1, Zenon DEF Serve
    <2> QED BY <2>1, StartTransactionInv, CommitTransactionInv, RollbackTransactionInv,
               AbandonInv, GetInv, SetDirectInv, SetInTransactionInv
  <1>2. CASE Save
    BY <1>2, WriteTempInv, RemoveConfInv, RenameTempInv, SaveSqliteInv DEF Save
  <1>3. CASE UNCHANGED vars
    <2>1. Slot' = Slot /\ Transaction' = Transaction /\ TypeOK' = TypeOK
      BY <1>3 DEF vars, Slot, Transaction, TypeOK
    <2>2. SlotsInv' /\ FilesInv'
      BY <1>3 DEF vars, Inv, SlotsInv, FilesInv
    <2> QED BY <2>1, <2>2 DEF Inv
  <1> QED
    BY <1>1, <1>2, <1>3, TickInv, StartInv, StopInv, CrashInv DEF Next

\* The link between clients, slots and files holds forever.
THEOREM InvAlways == Spec => []Inv
  <1>1. Init => Inv
    BY InitInv
  <1>2. Inv /\ [Next]_vars => Inv'
    BY NextInv
  <1> QED
    BY <1>1, <1>2, PTL DEF Spec

\* At every moment at which the daemon may be killed, what a restart would load
\* is the configuration saved last (filepersistency.c, sqlitepersistency.c).
THEOREM ConfigSoundAlways == Spec => []ConfigSound
  <1>1. Inv => ConfigSound
    <2> SUFFICES ASSUME Inv PROVE ConfigSound
      OBVIOUS
    <2>1. TypeOK /\ FilesInv
      BY DEF Inv
    <2>2. ASSUME at # "rename", ~torn PROVE Stored = AsSaved
      <3>1. CASE backend = "file"
        <4>1. Load(Content(disk.conf)) = ReadBack(durable)
          BY <2>1, <2>2, <3>1 DEF FilesInv
        <4> QED BY <3>1, <4>1 DEF Stored, AsSaved, ReadBack
      <3>2. CASE backend # "file"
        <4>1. disk.db = durable /\ durable \in [DOMAIN durable -> AllValues]
          BY <2>1, <3>2, TableFacts DEF FilesInv, TypeOK
        <4> QED BY <3>2, <4>1 DEF Stored, AsSaved
      <3> QED BY <3>1, <3>2
    <2> QED BY <2>1, <2>2 DEF ConfigSound, DiskIsDurable
  <1> QED
    BY <1>1, InvAlways, PTL

\* The steps that are no request.
LEMMA NoRequest ==
    ASSUME TypeOK,
           \/ UNCHANGED vars \/ Tick \/ Start \/ Stop \/ Save \/ Crash
           \/ \E c \in Clients : Abandon(c)
    PROVE  ~Requested
  <1>1. spent' = spent \/ spent' = [spent EXCEPT !.mishaps = @ + 1]
    BY DEF vars, Tick, Start, Stop, Save, WriteTemp, RemoveConf, RenameTemp, SaveSqlite,
           Crash, Abandon
  <1> QED
    BY <1>1, SpentFacts DEF Requested

\* The requests, and all the other steps.
LEMMA StepCases ==
    ASSUME Inv, [Next]_vars
    PROVE  \/ ~Requested
           \/ \E c \in Clients :
                \/ StartTransaction(c) \/ CommitTransaction(c) \/ RollbackTransaction(c)
                \/ \E k \in Keys : Get(c, k)
                \/ \E k \in Keys, v \in Values : SetDirect(c, k, v) \/ SetInTransaction(c, k, v)
  <1>1. TypeOK
    BY DEF Inv
  <1> QED
    BY <1>1, NoRequest, Zenon DEF Next, Serve

\* Every step of a request is isolated.
LEMMA NextIsolated ==
    ASSUME Inv, [Next]_vars
    PROVE  IsolatedStep
  <1>1. CASE ~Requested
    BY <1>1 DEF IsolatedStep
  <1>2. ASSUME NEW c \in Clients,
               \/ StartTransaction(c) \/ CommitTransaction(c) \/ RollbackTransaction(c)
               \/ \E k \in Keys : Get(c, k)
               \/ \E k \in Keys, v \in Values : SetDirect(c, k, v) \/ SetInTransaction(c, k, v)
        PROVE  IsolatedStep
    BY <1>2, StartTransactionIsolated, CommitTransactionIsolated, RollbackTransactionIsolated,
       GetIsolated, SetDirectIsolated, SetInTransactionIsolated
  <1> QED
    BY <1>1, <1>2, StepCases

\* Only startConfigTreeTransaction refuses a start.
LEMMA NextRefused ==
    ASSUME Inv, [Next]_vars
    PROVE  RefusedStep
  <1>1. CASE ~Requested
    BY <1>1 DEF RefusedStep
  <1>2. ASSUME NEW c \in Clients, StartTransaction(c) PROVE RefusedStep
    BY <1>2, StartTransactionRefused
  <1>3. ASSUME NEW c \in Clients,
               \/ CommitTransaction(c) \/ RollbackTransaction(c)
               \/ \E k \in Keys : Get(c, k)
               \/ \E k \in Keys, v \in Values : SetDirect(c, k, v) \/ SetInTransaction(c, k, v)
        PROVE  RefusedStep
    <2>1. reply'.op # "start"
      <3>1. ASSUME CommitTransaction(c) PROVE reply'.op = "commit"
        BY <3>1 DEF CommitTransaction, Reply
      <3>2. ASSUME RollbackTransaction(c) PROVE reply'.op = "rollback"
        BY <3>2 DEF RollbackTransaction, Reply
      <3>3. ASSUME NEW k \in Keys, Get(c, k) PROVE reply'.op = "get"
        <4>1. \E ok \in BOOLEAN : \E v : reply' = Reply("get", c, ok, k, v)
          BY <3>3 DEF Get
        <4> QED BY <4>1 DEF Reply
      <3>4. ASSUME NEW k \in Keys, NEW v \in Values, SetDirect(c, k, v) PROVE reply'.op = "set"
        BY <3>4 DEF SetDirect, Reply
      <3>5. ASSUME NEW k \in Keys, NEW v \in Values, SetInTransaction(c, k, v)
            PROVE  reply'.op = "set"
        BY <3>5 DEF SetInTransaction, Reply
      <3> QED BY <1>3, <3>1, <3>2, <3>3, <3>4, <3>5
    <2> QED BY <2>1 DEF RefusedStep
  <1> QED
    BY <1>1, <1>2, <1>3, StepCases

\* Transactions are isolated and atomic: a client sees what it set in its own
\* transaction, the others see it from its commit on, all of it; and a request in
\* a transaction succeeds exactly until it is over or timed out (configtree.c).
THEOREM IsolatedAlways == Spec => Isolated
  <1>1. Inv /\ [Next]_vars => [IsolatedStep]_vars
    BY NextIsolated
  <1> QED
    BY <1>1, InvAlways, PTL DEF Spec, Isolated

\* No slot is lost: startConfigTreeTransaction refuses only while as many
\* transactions as there are slots have begun, are not over and not timed out.
THEOREM RefusedOnlyWhenBusyAlways == Spec => RefusedOnlyWhenBusy
  <1>1. Inv /\ [Next]_vars => [RefusedStep]_vars
    BY NextRefused
  <1> QED
    BY <1>1, InvAlways, PTL DEF Spec, RefusedOnlyWhenBusy
=============================================================================
