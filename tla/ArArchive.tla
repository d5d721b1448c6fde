----------------------------- MODULE ArArchive ------------------------------
(***************************************************************************)
(* ArArchive::open and find (crates/macho_core/src/archive.rs): the members *)
(* of a static library, header by header.  A file f is its length and what  *)
(* is at which offset of it: headers, and the names that are written in the *)
(* contents.  A name is its text without the slashes at its end (a number,  *)
(* 0 for none), and how many slashes these are.                             *)
(***************************************************************************)
EXTENDS Integers, SequencesExt

CONSTANTS
    HeaderLen,      \* 60
    Magic,          \* 8, the length of the magic
    ArFileNames,    \* "ARFILENAMES"
    Archives        \* the files that are read


\* The name field of a header: a name, "#1/len" or "/index".  A number that does not
\* parse is NotANumber.
Plain(base, slashes) == [kind |-> "plain", base |-> base, slashes |-> slashes]
Inline(len) == [kind |-> "inline", len |-> len]
Index(at) == [kind |-> "index", at |-> at]
NotANumber == -1

ASSUME LengthsAssumption == HeaderLen \in Nat \ {0} /\ Magic \in Nat

ASSUME ArchivesAssumption ==
    \A a \in Archives :
        /\ a.len \in Nat
        /\ \A o \in DOMAIN a.heads :
             /\ a.heads[o].size \in Nat \cup {NotANumber}
             /\ a.heads[o].field.kind = "inline" => a.heads[o].field.len \in Nat \cup {NotANumber}

NoTable == [first |-> 0, end |-> 0]

VARIABLES
    archive,
    off,
    longNames,      \* where the table of long names is
    members,
    arEnd           \* "reading", "ok" or "error"; "off" if no archive is read

arVars == <<archive, off, longNames, members, arEnd>>

NoArchive == [len |-> 0, heads |-> <<>>, texts |-> <<>>]

ArInit ==
    /\ archive \in Archives
    /\ off = Magic
    /\ longNames = NoTable
    /\ members = <<>>
    /\ arEnd = IF archive.len < Magic THEN "error" ELSE "reading"

ArOff ==
    /\ archive = NoArchive /\ off = 0 /\ longNames = NoTable
    /\ members = <<>> /\ arEnd = "off"

\* trim_end_matches('/')
Trimmed(name) == IF name.kind = "plain" THEN Plain(name.base, 0) ELSE name

TextAt(f, o) == IF o \in DOMAIN f.texts THEN f.texts[o] ELSE 0

\* resolve_name.  The slash of "/index" is at its start, and "#1/len" is kept.
ResolveName(f, field, table) ==
    IF field.kind = "index" /\ table # NoTable /\ field.at # NotANumber
       /\ field.at <= table.end - table.first
    THEN Plain(TextAt(f, table.first + field.at), 0)
    ELSE Trimmed(field)

IsTable(name) == name \in {Plain(0, 2), Plain(ArFileNames, 1)}

SizeOf(n) == IF n = NotANumber THEN 0 ELSE n

AtHeader == arEnd = "reading" /\ off + HeaderLen <= archive.len /\ off \in DOMAIN archive.heads

Header == archive.heads[off]
Data == off + HeaderLen
DataEnd == Data + SizeOf(Header.size)

\* A faulty variant: only the file bounds the name.
NameIsInFile ==
    /\ Header.field.kind = "inline"
    /\ Header.field.len # NotANumber
    /\ Data + Header.field.len <= archive.len

\* The name of a BSD member is at the start of its content, if it fits there.
NameIsInside ==
    /\ Header.field.kind = "inline"
    /\ Header.field.len # NotANumber
    /\ Header.field.len <= SizeOf(Header.size)

Entry ==
    IF NameIsInside
    THEN [name |-> Plain(TextAt(archive, Data), 0), offset |-> Data + Header.field.len,
          size |-> SizeOf(Header.size) - Header.field.len]
    ELSE [name |-> ResolveName(archive, Header.field, longNames), offset |-> Data,
          size |-> SizeOf(Header.size)]

\* A faulty variant: the padding after an odd size is not skipped.
NextHeaderUnpadded == DataEnd

NextHeader == DataEnd + (DataEnd % 2)

\* A faulty variant: the content is taken to be there if its header is.
FitsAsHeader == Data <= archive.len

Fits == DataEnd <= archive.len

ReadMember ==
    /\ AtHeader
    /\ Fits
    /\ members' = Append(members, Entry)
    /\ longNames' = IF IsTable(Entry.name) THEN [first |-> Data, end |-> DataEnd] ELSE longNames
    /\ off' = NextHeader
    /\ UNCHANGED <<archive, arEnd>>

Truncated ==
    /\ AtHeader
    /\ ~Fits
    /\ arEnd' = "error"
    /\ UNCHANGED <<archive, off, longNames, members>>

\* Where there is no header the archive ends, whatever follows.
NoMore ==
    /\ arEnd = "reading" /\ ~AtHeader
    /\ arEnd' = "ok"
    /\ UNCHANGED <<archive, off, longNames, members>>

ArNext == ReadMember \/ Truncated \/ NoMore

ArSpec == ArInit /\ [][ArNext]_arVars

\* find: the first member of a name, with or without slashes; 0 if there is none.
Find(name) ==
    LET of == {k \in DOMAIN members : members[k].name = name \/ Trimmed(members[k].name) = name}
    IN  IF of = {} THEN 0 ELSE Min(of)

-----------------------------------------------------------------------------
(* What ar writes.  A member is a name and a size; long names have two bytes *)
(* here, and do not fit a header.                                            *)

CONSTANT LongNames  \* the names that do not fit a header

LongLen == 2

\* The members as they are laid out, with what a reader should find in each: BSD puts
\* a long name into the member, SysV into a table that comes first.
Layout(style, sources) ==
    LET long == SelectSeq([k \in DOMAIN sources |-> k], LAMBDA k : sources[k].name \in LongNames)
        place(k) == LongLen * (Cardinality({j \in Range(long) : j < k}))
        table == IF style = "sysv" /\ long # <<>>
                 THEN <<[field |-> Plain(0, 2), size |-> LongLen * Len(long), inline |-> 0,
                         texts |-> [j \in DOMAIN long |-> sources[long[j]].name], of |-> 0]>>
                 ELSE <<>>
        member(k) == LET s == sources[k]
                         base == [size |-> s.size, inline |-> 0, texts |-> <<>>, of |-> k]
                     IN  IF s.name \notin LongNames
                         THEN base @@ [field |-> Plain(s.name, IF style = "sysv" THEN 1 ELSE 0)]
                         ELSE IF style = "sysv" THEN base @@ [field |-> Index(place(k))]
                         ELSE [size |-> LongLen + s.size, inline |-> LongLen, texts |-> <<s.name>>,
                               of |-> k, field |-> Inline(LongLen)]
    IN  table \o [k \in DOMAIN sources |-> member(k)]

Padded(n) == n + (n % 2)

\* The file of which the first len bytes are there, with the size of one member
\* unreadable if garbled names one.
Written(style, sources, len, garbled) ==
    LET parts == Layout(style, sources)
        at == FoldLeft(LAMBDA offsets, p : Append(offsets, Last(offsets) + Padded(HeaderLen + p.size)),
                       <<Magic>>, parts)
        texts(k) == [o \in {at[k] + HeaderLen + LongLen * (j - 1) : j \in DOMAIN parts[k].texts} |->
                        parts[k].texts[((o - at[k] - HeaderLen) \div LongLen) + 1]]
    IN  [len   |-> Min({len, Last(at)}),
         heads |-> [o \in {at[k] : k \in DOMAIN parts} |->
                      LET k == CHOOSE j \in DOMAIN parts : at[j] = o
                      IN  [field |-> parts[k].field,
                           size  |-> IF parts[k].of = garbled /\ garbled # 0 THEN NotANumber
                                     ELSE parts[k].size]],
         texts |-> FoldLeft(LAMBDA all, k : all @@ texts(k), <<>>, [k \in DOMAIN parts |-> k]),
         truth |-> [k \in DOMAIN parts |->
                      [at     |-> at[k],
                       name   |-> IF parts[k].of = 0 THEN 0 ELSE sources[parts[k].of].name,
                       long   |-> parts[k].field.kind = "index",
                       offset |-> at[k] + HeaderLen + parts[k].inline,
                       size   |-> parts[k].size - parts[k].inline]],
         sound |-> IF garbled = 0 THEN Len(parts)
                   ELSE (CHOOSE k \in DOMAIN parts : parts[k].of = garbled) - 1]

\* What makes a file one that ar wrote, cut off anywhere: each header is at the next
\* even offset after a content, and says how long its own is; a BSD name is in front
\* of it.  After the sound members a size may not be a number.
IsWritten(a) ==
    LET t == a.truth
        end(k) == t[k].offset + t[k].size
        data(k) == t[k].at + HeaderLen
        head(k) == a.heads[t[k].at]
        inside(k) == head(k).field.kind = "inline"
    IN  /\ Len(t) \in Nat /\ a.sound \in 0..Len(t)
        /\ a.len <= IF Len(t) = 0 THEN Magic ELSE Padded(end(Len(t)))
        /\ \A k \in 1..Len(t) :
             /\ t[k].at = IF k = 1 THEN Magic ELSE Padded(end(k - 1))
             /\ t[k].at \in DOMAIN a.heads
             /\ t[k].size \in Nat
             /\ head(k).size = IF k = a.sound + 1 THEN NotANumber ELSE end(k) - data(k)
             /\ IF inside(k)
                THEN /\ head(k).field.len \in Nat
                     /\ t[k].offset = data(k) + head(k).field.len
                     /\ ~t[k].long /\ TextAt(a, data(k)) = t[k].name
                ELSE /\ t[k].offset = data(k)
                     /\ t[k].long \/ \E n \in 0..2 : head(k).field = Plain(t[k].name, n)

-----------------------------------------------------------------------------
(* Properties.                                                              *)

ArTypeOK ==
    /\ off \in Nat
    /\ arEnd \in {"off", "reading", "ok", "error"}
    /\ \A k \in DOMAIN members : members[k].offset \in Nat /\ members[k].size \in Nat

\* Of a file that ar wrote the members are read, as many as there are before the file
\* ends or a size that cannot be read: each with its content and its name, and found
\* by its name.  The file is refused only if it ends inside of a member's content
\* (open, archive.rs:30-99).
ReadsWhatWasWritten ==
    LET truth == archive.truth
        there == {k \in 1..archive.sound : truth[k].at + HeaderLen <= archive.len}
        end(k) == truth[k].offset + truth[k].size
    IN  arEnd \in {"ok", "error"} /\ archive.len >= Magic /\ IsWritten(archive) =>
        /\ archive.sound = Len(truth) =>
            (arEnd = "error" <=> \E k \in there : end(k) > archive.len)
        /\ arEnd = "ok" =>
            /\ \A k \in there :
                /\ k \in DOMAIN members
                /\ members[k].offset = truth[k].offset /\ members[k].size = truth[k].size
                /\ ~truth[k].long => /\ members[k].name = Plain(truth[k].name, 0)
                                     /\ Find(Plain(truth[k].name, 0)) \in 1..k
            /\ archive.sound = Len(truth) => DOMAIN members = there

\* Whatever is written where, the content of a member lies in the file and after the
\* content of the one before it, so that member_data never fails for a member of the
\* archive (archive.rs:103-107).
ContentsAreApart ==
    \A k \in DOMAIN members :
        /\ members[k].offset + members[k].size <= archive.len
        /\ k > 1 => members[k].offset >= members[k - 1].offset + members[k - 1].size + HeaderLen

\* A member of which the name is in the table of long names has that name: "SysV long
\* name: /offset into "//" table" (archive.rs:121).
LongNamesAreResolved ==
    arEnd = "ok" =>
        \A k \in DOMAIN members :
            (k <= archive.sound /\ archive.truth[k].long) =>
                members[k].name = Plain(archive.truth[k].name, 0)
=============================================================================
