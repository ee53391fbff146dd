------------------------------- MODULE Archive ------------------------------
(***************************************************************************)
(* The archive library: files and directories are written member by member *)
(* through a buffer (archive/create.c, arfile.c), then the archive is      *)
(* listed or extracted (extract.c).  A byte of the archive is a cell: of a *)
(* header, of the data of a member, or of padding.                         *)
(***************************************************************************)
EXTENDS Integers, Sequences, FiniteSets, SequencesExt

CONSTANTS Names, LongNames,    \* LongNames: AH_NAME_LEN characters or more
          Kept,                \* what the header keeps of a name that is shorter
          BlockSize, BufLen,   \* ARCHIVE_BLOCK_SIZE, IAF_BUF_LEN
          Types,               \* the types of the files
          Contents,            \* bound: their sizes, when asked for and when read
          DepthNull,           \* AH_DIR_DEPTH_NULL
          U32Span,             \* the values of a u32, more than BufLen
          MaxMembers

VARIABLES phase,     \* "create", "extract", "done", "overrun"
          members,   \* ghost: what was added
          headers,   \* the headers that were written
          saved,     \* fh_strFullpath, a sequence of names
          file, buf, \* the cells in the archive, those still in the buffer
          listing,   \* fh_bListArchive
          rd, out, ret  \* the reader, the members it found, the error code

arVars == <<phase, members, headers, saved, file, buf, listing, rd, out, ret>>

Cell(k, m, i) == [kind |-> k, member |-> m, index |-> i]
Cells(k, m, n) == [i \in 1..n |-> Cell(k, m, i)]
Parent(path) == SubSeq(path, 1, Len(path) - 1)

-----------------------------------------------------------------------------
(* arfile.c.  A full buffer is flushed when more is written.               *)
WriteArFile(b, cells) ==
    LET all == b.buf \o cells
        keep == IF Len(all) = 0 THEN 0 ELSE ((Len(all) - 1) % BufLen) + 1
    IN [file |-> b.file \o SubSeq(all, 1, Len(all) - keep),
        buf |-> SubSeq(all, Len(all) - keep + 1, Len(all))]

(* _fillArBuffer: the offset stays if there is nothing left.               *)
Fill(r) ==
    LET n == IF Len(file) - r.pos < BufLen THEN Len(file) - r.pos ELSE BufLen
    IN [r EXCEPT !.pos = @ + n, !.total = n, !.eof = @ \/ n < BufLen,
                 !.offset = IF n = 0 THEN @ ELSE 0, !.err = IF n = 0 THEN "end" ELSE "no"]

(* readArFile of n bytes.  With an offset beyond the end of the buffer the *)
(* length to be copied is negative.                                        *)
RECURSIVE ReadArFile(_, _)
ReadArFile(r, n) ==
    LET copy == r.total - r.offset
        r1 == Fill([r EXCEPT !.offset = @ + copy])
    IN IF copy < 0 THEN [r EXCEPT !.err = "overrun"]
       ELSE IF copy >= n THEN [r EXCEPT !.offset = @ + n, !.err = "no"]
       ELSE IF r1.err # "no" THEN r1 ELSE ReadArFile(r1, n - copy)

(* seekArFile: the offset and what is left in the buffer are cast to u32.  *)
RECURSIVE Skip(_, _)
Skip(r, n) ==
    LET ignore == (r.total - r.offset) % U32Span
        r1 == Fill([r EXCEPT !.offset = @ + ignore])
    IN IF ignore >= n THEN [r EXCEPT !.offset = @ + n, !.err = "no"]
       ELSE IF r1.err # "no" THEN r1 ELSE Skip(r1, n - ignore)
SeekArFile(r, offset) == Skip(r, offset % U32Span)

IsEndOfArFile(r) == r.eof /\ r.total = r.offset
At(r) == r.pos - (r.total - r.offset)       \* the cells that were read

-----------------------------------------------------------------------------
(* create.c                                                                *)

(* _countDirDepth: the directories to leave until the one of path is       *)
(* reached, or none is left.                                               *)
CountDirDepth(path, from) ==
    IF IsPrefix(Parent(path), from) THEN Len(from) - Len(Parent(path)) ELSE Len(from)

DirDepth(path) == IF saved = <<>> THEN DepthNull ELSE CountDirDepth(path, saved)

(* _setCommonFields.  The block with a long name is filled and not written. *)
Header(path, type, size) ==
    LET name == path[Len(path)]
    IN [depth |-> DirDepth(path), long |-> name \in LongNames, type |-> type, size |-> size,
        name |-> IF name \in LongNames THEN "" ELSE Kept[name]]

(* Mutant: the data is not padded.                                         *)
AlignNothing(size) == 0

(* _alignData: by the size of the file when it was added.                  *)
Align(size) == IF size % BlockSize = 0 THEN 0 ELSE BlockSize - (size % BlockSize)

(* _addFileToArchive and the functions that save one type each.            *)
MemberCells(m, type, size, actual) ==
    Cells("header", m, BlockSize) \o
    IF type = "regular" THEN Cells("data", m, actual) \o Cells("pad", m, Align(size)) ELSE <<>>

(* The next file of jf_dir_traverse, which goes down into a directory      *)
(* right after it was handled, or the first of another name in the list.   *)
NextPaths ==
    LET last == members[Len(members)]
        open == {SubSeq(last.path, 1, n) : n \in 1 .. Len(last.path) - 1}
                \cup (IF last.type = "dir" THEN {last.path} ELSE {})
        taken == {members[n].path : n \in DOMAIN members}
    IN {Append(d, n) : d \in open, n \in Names} \ taken

(* writeToArchive for one file; actual is what is read of it, which may    *)
(* have grown since its size was asked for.  MaxMembers is a bound.        *)
AddMember(path, type, size, actual) ==
    LET m == Len(members) + 1
        w == WriteArFile([file |-> file, buf |-> buf], MemberCells(m, type, size, actual))
    IN /\ phase = "create" /\ ret = "ok"
       /\ type # "regular" => size = 0 /\ actual = 0
       /\ IF saved # <<>> /\ DirDepth(path) >= DepthNull
          THEN ret' = "depth" /\ UNCHANGED <<members, headers, saved, file, buf>>
          ELSE /\ m <= MaxMembers
               /\ members' = Append(members, [path |-> path, type |-> type, size |-> size,
                                              actual |-> actual])
               /\ headers' = Append(headers, Header(path, type, size))
               /\ file' = w.file /\ buf' = w.buf
               /\ saved' = path /\ UNCHANGED ret
       /\ UNCHANGED <<phase, listing, rd, out>>

AddNext ==
    /\ members # <<>> /\ saved # <<>>
    /\ \E path \in NextPaths, type \in Types, c \in Contents :
          AddMember(path, type, c.size, c.actual)

(* The next name of the list has a handler of its own.                     *)
AddRoot ==
    /\ saved = <<>>
    /\ \E n \in Names, type \in Types, c \in Contents :
          /\ \A m \in DOMAIN members : members[m].path # <<n>>
          /\ AddMember(<<n>>, type, c.size, c.actual)
NextInList ==
    /\ phase = "create" /\ saved # <<>> /\ ret = "ok" /\ Len(members) < MaxMembers
    /\ saved' = <<>>
    /\ UNCHANGED <<phase, members, headers, file, buf, listing, rd, out, ret>>

(* destroyArFile, and the archive is opened by jf_archive_extract.         *)
Finish ==
    /\ phase = "create"
    /\ phase' = "extract" /\ file' = file \o buf /\ buf' = <<>> /\ saved' = <<>>
    /\ listing' \in BOOLEAN /\ ret' = "ok"
    /\ UNCHANGED <<members, headers, rd, out>>

-----------------------------------------------------------------------------
(* extract.c                                                               *)

(* _getMemberFilename: the directories are left one by one.                *)
MemberPath(h, name) ==
    LET from == IF h.depth = DepthNull THEN <<>> ELSE saved
    IN IF from = <<>> THEN <<name>>
       ELSE Append(SubSeq(from, 1, IF h.depth < Len(from) THEN Len(from) - h.depth ELSE 0), name)

(* ARCHIVE_ALIGH_SIZE, of 0 as well, in 64 bits.                           *)
AlignedSize(size) == ((size + BlockSize - 1) \div BlockSize) * BlockSize

(* _extractMemberFile: only regular files have data, which is read with    *)
(* its padding or, for a list, skipped.                                    *)
ExtractMember(r, h, path) ==
    LET data == SubSeq(file, At(r) + 1, At(r) + h.size)
        size == AlignedSize(h.size)
        r1 == IF h.type # "regular" \/ size = 0 THEN r
              ELSE IF listing THEN SeekArFile(r, size) ELSE ReadArFile(r, size)
        found == [path |-> path, type |-> h.type, size |-> h.size,
                  data |-> IF h.type = "regular" /\ ~listing THEN data ELSE <<>>]
    IN IF h.type = "sock" THEN [rd |-> r, out |-> out, ret |-> "type"]
       ELSE IF r1.err = "no" THEN [rd |-> r1, out |-> Append(out, found), ret |-> "ok"]
       ELSE [rd |-> r1, out |-> out, ret |-> "corrupted"]

(* What follows the header that was read up to r.                          *)
Extract(r) ==
    LET c == file[At(r) - BlockSize + 1]
        h == headers[c.member]
        r1 == IF h.long THEN ReadArFile(r, BlockSize) ELSE r
        path == MemberPath(h, IF h.long THEN "?" ELSE h.name)
    IN IF c.kind # "header" THEN [rd |-> r, out |-> out, ret |-> "type", saved |-> saved]
       ELSE IF r1.err # "no" THEN [rd |-> r1, out |-> out, ret |-> "end", saved |-> saved]
       ELSE LET e == ExtractMember(r1, h, path)
            IN [rd |-> e.rd, out |-> e.out, ret |-> e.ret, saved |-> path]

(* The loop of extractFromArchive.  The end of the file instead of a       *)
(* header is no error.                                                     *)
ExtractNext ==
    LET r == ReadArFile(rd, BlockSize)
    IN /\ phase = "extract" /\ ret = "ok" /\ ~IsEndOfArFile(rd)
       /\ IF r.err = "overrun" THEN phase' = r.err /\ UNCHANGED <<rd, out, ret, saved>>
          ELSE IF r.err = "end" THEN rd' = r /\ UNCHANGED <<phase, out, ret, saved>>
          ELSE LET e == Extract(r)
               IN /\ rd' = e.rd /\ out' = e.out /\ ret' = e.ret /\ saved' = e.saved
                  /\ UNCHANGED phase
       /\ UNCHANGED <<members, headers, file, buf, listing>>

Done ==
    /\ phase = "extract" /\ (ret # "ok" \/ IsEndOfArFile(rd))
    /\ phase' = "done"
    /\ UNCHANGED <<members, headers, saved, file, buf, listing, rd, out, ret>>

ArInit ==
    /\ phase = "create" /\ members = <<>> /\ headers = <<>> /\ saved = <<>>
    /\ file = <<>> /\ buf = <<>> /\ listing = FALSE /\ out = <<>> /\ ret = "ok"
    /\ rd = [pos |-> 0, total |-> 0, offset |-> 0, eof |-> FALSE, err |-> "no"]

ArNext == AddRoot \/ AddNext \/ NextInList \/ Finish \/ ExtractNext \/ Done

ArSpec == ArInit /\ [][ArNext]_arVars

-----------------------------------------------------------------------------
Plain(m) ==
    /\ m.type # "sock" /\ m.actual = m.size
    /\ listing => AlignedSize(m.size) < U32Span
    /\ \A i \in DOMAIN m.path : m.path[i] \notin LongNames /\ Kept[m.path[i]] = m.path[i]

(* What is extracted from an archive is what was added to it: every path,  *)
(* type and size, in order, with the data of the regular files; and the    *)
(* list is the same.  So the header of each member is found where the      *)
(* padding of the one before it ends, across the ends of the buffer, and   *)
(* the steps up are those of the directories that were left: for the next  *)
(* file of the same directory, for one beside a directory that was gone    *)
(* down into, and for the next name of the list, which has none.  Of files *)
(* that change while they are added, long names and sockets see            *)
(* AllExtracted; of a list with large files, LargeFilesListed.             *)
ArchiveExact ==
    (\A n \in DOMAIN members : Plain(members[n])) =>
    /\ phase = "overrun" => Len(file) % BufLen = 0
    /\ phase \in {"done", "overrun"} =>
        /\ ret = "ok" /\ Len(out) = Len(members)
        /\ \A n \in DOMAIN members :
             LET m == members[n]
             IN out[n] = [path |-> m.path, type |-> m.type, size |-> m.size,
                          data |-> IF listing \/ m.type # "regular" THEN <<>>
                                   ELSE Cells("data", n, m.size)]

(* The extraction ends: the end of the archive is noticed.  It is not when *)
(* the length of the archive is a multiple of IAF_BUF_LEN: then the next   *)
(* length to be copied is negative.                                        *)
ExtractionEnds == phase # "overrun"

(* Every member that was added is extracted.  A long name is not written,  *)
(* a name of AH_NAME_LEN - 1 characters is cut, sockets cannot be          *)
(* extracted, and a file that grows displaces what follows it.             *)
AllExtracted ==
    phase = "done" =>
        \A n \in DOMAIN members : \E o \in DOMAIN out : out[o].path = members[n].path

(* A list has the members that were added, whatever their size.  A file of *)
(* 4 GB or more is not skipped: the offset of seekArFile is cast to u32,   *)
(* and a part of the data is taken for the next header.                    *)
LargeFilesListed ==
    (phase = "done" /\ listing /\ \A n \in DOMAIN members :
        Plain([members[n] EXCEPT !.size = 0, !.actual = @ - members[n].size])) =>
    Len(out) = Len(members)
=============================================================================
