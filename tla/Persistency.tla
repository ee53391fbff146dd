----------------------------- MODULE Persistency ----------------------------
(***************************************************************************)
(* The persistency library: one manager (persistency/persistency.c) over a *)
(* configuration file (filepersistency.c, files/conffile.c) or a database  *)
(* (sqlitepersistency.c, jiutai/jf_sqlite.c).  Every call holds the lock   *)
(* of the manager, so a call is one step; it may fail.  A client sets      *)
(* values inside and outside of transactions, another process locks the    *)
(* database, the manager is destroyed and created again.                   *)
(*                                                                         *)
(* ConfigMgr has what a kill leaves between the steps of one save.         *)
(***************************************************************************)
EXTENDS Integers, Sequences, FiniteSets, FiniteSetsExt, SequencesExt

CONSTANTS StoreKeys,
          Values, Empty,     \* Empty is the empty string, a member of Values
          AsRead,            \* a value as a reading of its line returns it
          Quoted,            \* the values that make an SQL statement wrong
          Long, Shortened,   \* the values as long as the client's buffer, their beginning
          Junk,              \* a key or value that was cut off
          FreshFlags,        \* what unwritten memory may hold for the flag
          MaxCommands        \* bound: the calls of the client

VARIABLES backend,   \* "file" or "sqlite", pm_jptType
          started,   \* pm_bTransactionStarted
          conf,      \* the lines of the file, <<key, value>>
          temp,      \* the temporary file: its lines, and if the last has no end
          tree,      \* fp_jhKeyValue
          db, txn,   \* the table, and the open transaction's writes or NoTxn
          other,     \* what another process has of the database
          at,        \* the client: "idle", "in" a transaction, "failed" in it
          want, pend,\* ghosts: what was stored, what the transaction set
          ghost      \* ghosts: see NoGhost

persVars == <<backend, started, conf, temp, tree, db, txn, other, at, want, pend, ghost>>
fileVars == <<conf, temp, tree>>
sqlVars == <<db, txn>>

NoTxn == [none |-> TRUE]
NoValues == <<>>
NoTemp == [lines |-> <<>>, open |-> FALSE]
(* owed: a commit failed and was not rolled back ("yes"), and values were  *)
(* set since ("used"); mixed: a temporary file was appended to; cut: the   *)
(* file was replaced by one that could not be written; unset: the flag was *)
(* read before it was written.                                             *)
NoGhost == [owed |-> "no", mixed |-> FALSE, cut |-> FALSE, unset |-> FALSE, commands |-> 0]

With(f, g) == [k \in DOMAIN f \cup DOMAIN g |-> IF k \in DOMAIN g THEN g[k] ELSE f[k]]
One(k, v) == [x \in {k} |-> v]
ValueIn(f, k) == IF k \in DOMAIN f THEN f[k] ELSE Empty
Buffered(v) == IF v \in Long THEN Shortened ELSE v
Result(ok, v) == [ok |-> ok, value |-> v]

-----------------------------------------------------------------------------
(* conffile.c                                                              *)

(* _traverseConfFile                                                       *)
Pairs(lines) == [n \in DOMAIN lines |-> <<lines[n][1], AsRead[lines[n][2]]>>]

(* _getValueStringByTag: the lines of the key.                             *)
LinesOf(lines, k) == {n \in DOMAIN lines : Pairs(lines)[n][1] = k}

(* jf_conffile_get: the first line of the key with a value.                *)
ConfGet(lines, k) ==
    LET found == {n \in LinesOf(lines, k) : Pairs(lines)[n][2] # Empty}
    IN IF found = {} THEN Result(TRUE, Empty)
       ELSE LET v == Pairs(lines)[Min(found)][2]
            IN IF v \in Long THEN Result(FALSE, Empty) ELSE Result(TRUE, v)

(* The callbacks that save every line, with a new value if there is one,   *)
(* and the keys that no line has.                                          *)
Saved(lines, new) ==
    LET ps == Pairs(lines)
        rest == SetToSeq(DOMAIN new \ {ps[n][1] : n \in DOMAIN ps})
    IN [n \in DOMAIN ps |-> <<ps[n][1], IF ps[n][1] \in DOMAIN new
                                       THEN new[ps[n][1]] ELSE ps[n][2]>>]
       \o [n \in DOMAIN rest |-> <<rest[n], new[rest[n]]>>]

(* Lines written to the end of a file, whose last line may have no end.    *)
Written(t, lines) ==
    IF t.open /\ lines # <<>>
    THEN Front(t.lines) \o << <<Last(t.lines)[1], Junk>> >> \o Tail(lines)
    ELSE t.lines \o lines

(* What a failing write leaves: whole lines, and a line cut in its value   *)
(* or, with no "=" yet, in its key.                                        *)
CutShort(t, lines) ==
    {[lines |-> Written(t, SubSeq(lines, 1, n)), open |-> t.open /\ n = 0] : n \in 0 .. Len(lines) - 1}
    \cup {[lines |-> Written(t, SubSeq(lines, 1, n - 1) \o << <<Junk, Junk>> >>), open |-> TRUE] :
             n \in DOMAIN lines}
    \cup {[lines |-> Written(t, SubSeq(lines, 1, n - 1) \o << <<lines[n][1], Junk>> >>), open |-> TRUE] :
             n \in DOMAIN lines}

-----------------------------------------------------------------------------
(* jf_sqlite.c                                                             *)

(* What the connection sees, and what a key reads.                         *)
Table == IF txn = NoTxn THEN db ELSE With(db, txn)
SqlGet(k) == Result(TRUE, Buffered(ValueIn(Table, k)))

(* _jtSqliteEvalSqlStmt: a statement outside of a transaction is retried   *)
(* until the other process is done, which holds up the call.               *)
MayRead == txn # NoTxn \/ other # "writing"
MayWrite == txn # NoTxn \/ other = "none"

-----------------------------------------------------------------------------
Command == ghost.commands < MaxCommands
Counted(g) == [g EXCEPT !.commands = @ + 1]

(* The file is opened with an empty tree, the old one is not freed; what   *)
(* the database had open is rolled back when it is closed.                 *)
CreateFile == backend = "file" /\ tree' = NoValues /\ UNCHANGED txn
CreateSqlite == backend = "sqlite" /\ txn' = NoTxn /\ UNCHANGED tree

(* jf_persistency_create after jf_persistency_destroy: the flag is not     *)
(* among what is initialized.                                              *)
Create ==
    /\ Command
    /\ \E flag \in FreshFlags :
         /\ started' = flag
         /\ ghost' = Counted([ghost EXCEPT !.unset = flag,
                                           !.owed = IF @ = "yes" THEN "no" ELSE @])
    /\ CreateFile \/ CreateSqlite
    /\ at' = "idle" /\ pend' = NoValues
    /\ UNCHANGED <<backend, conf, temp, db, other, want>>

(* Mutant: the values of the transaction are not looked at.                *)
GetFileOnly(k) == ConfGet(conf, k)

(* _getValueFromPersistencyFile                                            *)
GetFile(k) ==
    IF started /\ k \in DOMAIN tree THEN Result(TRUE, Buffered(tree[k]))
    ELSE ConfGet(conf, k)

(* jf_persistency_getValue                                                 *)
GetValue(k) == IF backend = "file" THEN GetFile(k) ELSE SqlGet(k)

(* jf_persistency_traverse: the pairs that are handed to the callback.     *)
Traverse ==
    IF backend = "file" THEN {Pairs(conf)[n] : n \in DOMAIN conf}
    ELSE {<<k, Table[k]>> : k \in DOMAIN Table}

(* The lines of a file that a reader takes for one: all that have a "=".   *)
Readable(t) == IF t.open /\ Last(t.lines)[1] = Junk THEN Front(t.lines) ELSE t.lines

(* The writes to the temporary file t go to a buffer: one that fails is an *)
(* error and the file stays, or it fails in jf_filestream_close, where     *)
(* nobody looks, and what was written takes the place of the file.         *)
Replaced(t, lines, new) ==
    \/ /\ conf' = Written(t, lines) /\ temp' = NoTemp
       /\ want' = With(want, new)
       /\ ghost' = Counted([ghost EXCEPT !.mixed = @ \/ t # NoTemp])
    \/ /\ temp' \in CutShort(t, lines)
       /\ ghost' = Counted(ghost)
       /\ UNCHANGED <<conf, want>>
    \/ /\ \E c \in CutShort(t, lines) : conf' = Readable(c)
       /\ temp' = NoTemp
       /\ want' = With(want, new)
       /\ ghost' = Counted([ghost EXCEPT !.cut = TRUE])

(* jf_conffile_set, which begins the temporary file anew.                  *)
SetConf(k, v) == Replaced(NoTemp, Saved(conf, One(k, v)), One(k, v))

(* jf_persistency_setValue                                                 *)
SetFile(k, v) ==
    /\ backend = "file" /\ UNCHANGED sqlVars
    /\ IF started
       THEN /\ tree' = With(tree, One(k, v))
            /\ pend' = With(pend, One(k, v))
            /\ ghost' = Counted(ghost)
            /\ UNCHANGED <<conf, temp, want>>
       ELSE SetConf(k, v) /\ UNCHANGED <<tree, pend>>
    /\ UNCHANGED at

SetSqlite(k, v) ==
    /\ backend = "sqlite" /\ MayWrite /\ UNCHANGED fileVars
    /\ IF v \in Quoted
       THEN /\ at' = (IF at = "in" THEN "failed" ELSE at)
            /\ ghost' = Counted(ghost)
            /\ UNCHANGED <<sqlVars, want, pend>>
       ELSE /\ IF txn = NoTxn
               THEN db' = With(db, One(k, v)) /\ UNCHANGED txn
               ELSE txn' = With(txn, One(k, v)) /\ UNCHANGED db
            /\ IF at = "in"
               THEN pend' = With(pend, One(k, v)) /\ UNCHANGED want
               ELSE want' = With(want, One(k, v)) /\ UNCHANGED pend
            /\ ghost' = Counted([ghost EXCEPT !.owed = IF @ = "yes" THEN "used" ELSE @])
            /\ UNCHANGED at

SetValue(k, v) ==
    /\ Command /\ at # "failed"
    /\ SetFile(k, v) \/ SetSqlite(k, v)
    /\ UNCHANGED <<backend, started, other>>

(* _startTransactionOfPersistencyFile; its assertion stops the program.    *)
StartFile ==
    /\ backend = "file" /\ ~started
    /\ tree' = NoValues /\ started' = TRUE /\ at' = "in" /\ pend' = NoValues
    /\ UNCHANGED txn

(* _jtSqliteExecSqlTransaction: a statement that is held up by what the    *)
(* other process does is given up after JF_SQLITE_MAX_TRANSACTION_RETRY    *)
(* attempts.                                                               *)
GivenUp(holdups) == other \in holdups

(* jf_sqlite_startTransaction: "BEGIN" also fails in a transaction that    *)
(* was never ended.                                                        *)
StartSqlite ==
    /\ backend = "sqlite" /\ UNCHANGED tree
    /\ IF txn # NoTxn \/ GivenUp({"writing"})
       THEN UNCHANGED <<started, txn, at, pend>>
       ELSE txn' = NoValues /\ started' = TRUE /\ at' = "in" /\ pend' = NoValues

(* jf_persistency_startTransaction                                         *)
StartTransaction ==
    /\ Command /\ at = "idle"
    /\ StartFile \/ StartSqlite
    /\ ghost' = Counted(ghost)
    /\ UNCHANGED <<backend, conf, temp, db, other, want>>

(* _writeKeyValueToFilePersistency                                         *)
CommitFile ==
    /\ backend = "file" /\ UNCHANGED sqlVars
    /\ Replaced(temp, Saved(conf, tree), pend)
    /\ tree' = NoValues

(* jf_sqlite_commitTransaction                                             *)
CommitSqlite ==
    /\ backend = "sqlite" /\ UNCHANGED fileVars
    /\ IF ~GivenUp({"reading", "writing"})
       THEN /\ db' = Table /\ txn' = NoTxn
            /\ want' = With(want, pend) /\ ghost' = Counted(ghost)
       ELSE /\ ghost' = Counted([ghost EXCEPT !.owed = "yes"])
            /\ UNCHANGED <<sqlVars, want>>

(* jf_persistency_commitTransaction                                        *)
CommitTransaction ==
    /\ Command /\ at = "in"
    /\ CommitFile \/ CommitSqlite
    /\ started' = FALSE /\ at' = "idle" /\ pend' = NoValues
    /\ UNCHANGED <<backend, other>>

RollbackFile == backend = "file" /\ tree' = NoValues /\ UNCHANGED txn
RollbackSqlite == backend = "sqlite" /\ txn' = NoTxn /\ UNCHANGED tree

(* jf_persistency_rollbackTransaction, of a transaction or after a commit  *)
(* that failed.                                                            *)
RollbackTransaction ==
    /\ Command
    /\ at # "idle" \/ ghost.owed = "yes"
    /\ started' = FALSE /\ at' = "idle" /\ pend' = NoValues
    /\ RollbackFile \/ RollbackSqlite
    /\ ghost' = Counted([ghost EXCEPT !.owed = IF @ = "yes" THEN "no" ELSE @])
    /\ UNCHANGED <<backend, conf, temp, db, other, want>>

(* Another process reads or writes the database.                           *)
Other ==
    /\ backend = "sqlite"
    /\ \/ other = "none" /\ other' = "reading"
       \/ other = "none" /\ txn = NoTxn /\ other' = "writing"
       \/ other # "none" /\ other' = "none"
    /\ UNCHANGED <<backend, started, fileVars, sqlVars, at, want, pend, ghost>>

PersInit ==
    /\ backend \in {"file", "sqlite"}
    /\ started \in FreshFlags
    /\ ghost = [NoGhost EXCEPT !.unset = started]
    /\ conf = <<>> /\ temp = NoTemp /\ tree = NoValues
    /\ db = NoValues /\ txn = NoTxn /\ other = "none"
    /\ at = "idle" /\ want = NoValues /\ pend = NoValues

PersNext ==
    \/ Create
    \/ \E k \in StoreKeys, v \in Values : SetValue(k, v)
    \/ StartTransaction \/ CommitTransaction \/ RollbackTransaction
    \/ Other

PersSpec == PersInit /\ [][PersNext]_persVars

-----------------------------------------------------------------------------
StoredAs(v) == IF backend = "file" THEN AsRead[v] ELSE v
GotAs(v) ==
    LET s == StoredAs(v)
    IN IF backend = "file" /\ s \in Long THEN Result(FALSE, Empty) ELSE Result(TRUE, Buffered(s))
Usual == ~ghost.mixed /\ ~ghost.cut /\ ~(ghost.unset /\ backend = "file") /\ ghost.owed # "used"

(* What a client has set is what it gets: the values of its transaction    *)
(* while it is open, what was committed or set outside of one after it and *)
(* after the manager is created again, and nothing of a transaction that   *)
(* was rolled back or whose commit failed.  Not if a failed commit left    *)
(* lines in the temporary file, a failed write was not noticed, values were*)
(* set after a failed commit that was not rolled back, or the flag was     *)
(* never written.                                                          *)
StoreExact ==
    Usual =>
    /\ \A k \in StoreKeys :
        /\ backend = "file" => ConfGet(conf, k) = GotAs(ValueIn(want, k))
        /\ backend = "sqlite" => ValueIn(db, k) = ValueIn(want, k)
        /\ ghost.owed = "no" =>
             GetValue(k) = (IF at = "idle" \/ k \notin DOMAIN pend THEN GotAs(ValueIn(want, k))
                            ELSE Result(TRUE, Buffered(pend[k])))
    /\ at = "idle" /\ ghost.owed = "no" =>
         Traverse = {<<k, StoredAs(want[k])>> : k \in DOMAIN want}
    /\ ~ghost.unset => started = (at # "idle")
    /\ tree # NoValues => started

(* jf_persistency.h says of a set "If the key is existing, old key is      *)
(* updated with new value": a value set successfully outside of a          *)
(* transaction is what the next get returns, and the one after a restart.  *)
(* It does not hold for the cases that StoreExact leaves out.              *)
OldValueGone ==
    \A k \in DOMAIN want :
        /\ at = "idle" => GetValue(k) = GotAs(want[k])
        /\ backend = "sqlite" => ValueIn(db, k) = want[k]
=============================================================================
