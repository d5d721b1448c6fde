------------------------------- MODULE ZipFile -------------------------------
(***************************************************************************)
(* The bytes of an IPA: write_stored_zip (crates/ipa_vfs/src/zip_write.rs), *)
(* ZipArchive::open and read (zip.rs), and the loop of IpaVfs::open         *)
(* (bundle.rs) over the entries.  A file f is its length and what begins at *)
(* which offset of it: local headers, central headers, ends of the central  *)
(* directory, and contents.  Numbers that the format keeps in four bytes    *)
(* are kept modulo Width.                                                   *)
(***************************************************************************)
EXTENDS Integers, SequencesExt

CONSTANTS
    Width,          \* 2^32
    MaxEntries,     \* u16::MAX
    MaxName,        \* u16::MAX
    MaxComment,     \* 65535, how far from the end of the file its end may be
    Jobs            \* what is written and read back, or read

LocalLen == 30
CentralLen == 46
EndLen == 22

ASSUME WidthAssumption == Width \in Nat \ {0} /\ MaxEntries \in Nat /\ MaxName \in Nat /\ MaxComment \in Nat

ASSUME JobsAssumption ==
    \A j \in Jobs :
      /\ Len(j.entries) \in Nat /\ DOMAIN j.entries = 1..Len(j.entries)
      /\ \A k \in DOMAIN j.entries :
           j.entries[k].nameLen \in Nat /\ j.entries[k].len \in Nat /\ j.entries[k].dir \in BOOLEAN

\* Content that was not stored as one piece.
Garbled == "garbled"

\* A job has the entries to be written, or a file that others have written, and what
\* the files in it are; an entry is its name (dir if that ends in '/'), the length of
\* the name, and its content with its length.
VARIABLES
    job,
    out,            \* the file
    offsets,        \* of the local headers that were written
    entries,        \* what the central directory was read to say
    zipAt,          \* the entry that is next, from 1
    zipOff,         \* where its central header should be
    zipFiles,       \* the files that were read
    zipStage        \* "locals", "directory", "open", "centrals", "contents", "ok" or "error"; "off"

zipVars == <<job, out, offsets, entries, zipAt, zipOff, zipFiles, zipStage>>

NoBytes == [len |-> 0, locals |-> <<>>, centrals |-> <<>>, ends |-> <<>>, body |-> <<>>]

ZipInit ==
    /\ job \in Jobs
    /\ offsets = <<>> /\ entries = <<>> /\ zipAt = 1 /\ zipOff = 0 /\ zipFiles = <<>>
    /\ IF job.foreign THEN out = job.file /\ zipStage = "open"
       ELSE out = NoBytes /\ zipStage = IF Len(job.entries) > MaxEntries THEN "error" ELSE "locals"

NoJob == [foreign |-> FALSE, entries |-> <<>>, sound |-> FALSE]

ZipOff ==
    /\ job = NoJob /\ out = NoBytes /\ offsets = <<>> /\ entries = <<>>
    /\ zipAt = 1 /\ zipOff = 0 /\ zipFiles = <<>> /\ zipStage = "off"

ToWidth(n) == n % Width

\* A function that has v at x, and what f has elsewhere.
With(f, x, v) == [y \in DOMAIN f \cup {x} |-> IF y = x THEN v ELSE f[y]]

ZipGoTo(s) == zipStage' = s /\ zipAt' = 1

-----------------------------------------------------------------------------
(* write_stored_zip.                                                         *)

Source == job.entries[zipAt]

HasItsSize(e) == e.nameLen <= MaxName /\ e.len < Width

\* A faulty variant: the offset of an entry is taken after its header.
WriteLocalLate ==
    /\ zipStage = "locals" /\ zipAt <= Len(job.entries)
    /\ HasItsSize(Source)
    /\ offsets' = Append(offsets, ToWidth(out.len + LocalLen))
    /\ LET start == out.len + LocalLen + Source.nameLen
       IN  out' = [out EXCEPT !.len = start + Source.len,
                              !.locals = With(out.locals, out.len, [nameLen |-> Source.nameLen, extra |-> 0]),
                              !.body = With(out.body, start, [len |-> Source.len, content |-> Source.content])]
    /\ zipAt' = zipAt + 1
    /\ UNCHANGED <<job, entries, zipOff, zipFiles, zipStage>>

\* Its header, its name and its content.
WriteLocal ==
    /\ zipStage = "locals" /\ zipAt <= Len(job.entries)
    /\ HasItsSize(Source)
    /\ offsets' = Append(offsets, ToWidth(out.len))
    /\ LET start == out.len + LocalLen + Source.nameLen
       IN  out' = [out EXCEPT !.len = start + Source.len,
                              !.locals = With(out.locals, out.len, [nameLen |-> Source.nameLen, extra |-> 0]),
                              !.body = With(out.body, start, [len |-> Source.len, content |-> Source.content])]
    /\ zipAt' = zipAt + 1
    /\ UNCHANGED <<job, entries, zipOff, zipFiles, zipStage>>

EntryTooLarge ==
    /\ zipStage = "locals" /\ zipAt <= Len(job.entries)
    /\ ~HasItsSize(Source)
    /\ ZipGoTo("error")
    /\ UNCHANGED <<job, out, offsets, entries, zipOff, zipFiles>>

LocalsEnd ==
    /\ zipStage = "locals" /\ zipAt > Len(job.entries)
    /\ zipOff' = ToWidth(out.len)                   \* cd_start
    /\ ZipGoTo("directory")
    /\ UNCHANGED <<job, out, offsets, entries, zipFiles>>

Central(source, offset) ==
    [name |-> source.name, dir |-> source.dir, nameLen |-> source.nameLen, tail |-> 0,
     method |-> "stored", size |-> source.len, offset |-> offset]

WriteCentral ==
    /\ zipStage = "directory" /\ zipAt <= Len(job.entries)
    /\ out' = [out EXCEPT !.len = out.len + CentralLen + Source.nameLen,
                          !.centrals = With(out.centrals, out.len, Central(Source, offsets[zipAt]))]
    /\ zipAt' = zipAt + 1
    /\ UNCHANGED <<job, offsets, entries, zipOff, zipFiles, zipStage>>

WriteEnd ==
    /\ zipStage = "directory" /\ zipAt > Len(job.entries)
    /\ out' = [out EXCEPT !.len = out.len + EndLen,
                          !.ends = With(out.ends, out.len, [count |-> Len(job.entries), start |-> zipOff])]
    /\ ZipGoTo("open")
    /\ UNCHANGED <<job, offsets, entries, zipOff, zipFiles>>

-----------------------------------------------------------------------------
(* ZipArchive::open and read.                                                *)

\* find_eocd: the last one that the file has room for and a comment can be behind.
Ends == {o \in DOMAIN out.ends : o \in (out.len - EndLen - MaxComment)..(out.len - EndLen)}

TheEnd == out.ends[Max(Ends)]

OpenZip ==
    /\ zipStage = "open" /\ Ends # {}
    /\ zipOff' = TheEnd.start
    /\ ZipGoTo("centrals")
    /\ UNCHANGED <<job, out, offsets, entries, zipFiles>>

CentralIsThere ==
    /\ zipOff \in DOMAIN out.centrals
    /\ zipOff + CentralLen + out.centrals[zipOff].nameLen <= out.len

ReadCentral ==
    /\ zipStage = "centrals" /\ zipAt <= TheEnd.count /\ CentralIsThere
    /\ entries' = Append(entries, out.centrals[zipOff])
    /\ zipOff' = zipOff + CentralLen + out.centrals[zipOff].nameLen + out.centrals[zipOff].tail
    /\ zipAt' = zipAt + 1
    /\ UNCHANGED <<job, out, offsets, zipFiles, zipStage>>

CentralsEnd ==
    /\ zipStage = "centrals" /\ zipAt > TheEnd.count
    /\ ZipGoTo("contents")
    /\ UNCHANGED <<job, out, offsets, entries, zipOff, zipFiles>>

BadZip ==
    /\ \/ zipStage = "open" /\ Ends = {}
       \/ zipStage = "centrals" /\ zipAt <= TheEnd.count /\ ~CentralIsThere
    /\ ZipGoTo("error")
    /\ UNCHANGED <<job, out, offsets, entries, zipOff, zipFiles>>

EntryNow == entries[zipAt]

\* A faulty variant: the local header is taken to be as long as the central one says.
ContentStartCentral(e) == e.offset + LocalLen + e.nameLen + e.tail

\* The local header has lengths of its own, which may be others.
ContentStart(e) == e.offset + LocalLen + out.locals[e.offset].nameLen + out.locals[e.offset].extra

ContentIsThere(e) ==
    /\ e.offset \in DOMAIN out.locals
    /\ ContentStart(e) + e.size <= out.len
    /\ e.method \in {"stored", "deflated"}

ContentOf(e) ==
    LET start == ContentStart(e)
    IN  IF start \in DOMAIN out.body /\ out.body[start].len = e.size
        THEN out.body[start].content ELSE Garbled

\* Compressed content that is broken decompresses to something or to nothing; its
\* size and checksum are not compared.
MayNotInflate(e) == e.method = "deflated" /\ ContentOf(e) = Garbled

\* Of entries with one name the last one counts; a name that ends in '/' is not read.
ReadEntry ==
    /\ zipStage = "contents" /\ zipAt <= Len(entries)
    /\ EntryNow.dir \/ ContentIsThere(EntryNow)
    /\ zipFiles' = IF EntryNow.dir THEN zipFiles
                   ELSE With(zipFiles, EntryNow.name, ContentOf(EntryNow))
    /\ zipAt' = zipAt + 1
    /\ UNCHANGED <<job, out, offsets, entries, zipOff, zipStage>>

ReadFails ==
    /\ zipStage = "contents" /\ zipAt <= Len(entries) /\ ~EntryNow.dir
    /\ ContentIsThere(EntryNow) => MayNotInflate(EntryNow)
    /\ ZipGoTo("error")
    /\ UNCHANGED <<job, out, offsets, entries, zipOff, zipFiles>>

ContentsEnd ==
    /\ zipStage = "contents" /\ zipAt > Len(entries)
    /\ ZipGoTo("ok")
    /\ UNCHANGED <<job, out, offsets, entries, zipOff, zipFiles>>

ZipNext == \/ WriteLocal \/ EntryTooLarge \/ LocalsEnd \/ WriteCentral \/ WriteEnd
           \/ OpenZip \/ ReadCentral \/ CentralsEnd \/ BadZip
           \/ ReadEntry \/ ReadFails \/ ContentsEnd

ZipSpec == ZipInit /\ [][ZipNext]_zipVars

-----------------------------------------------------------------------------
(* What other programs write: extra fields in the local headers, extra       *)
(* fields and comments in the central ones, compressed content, a comment at *)
(* the end; and what may have happened to the file.                          *)

Faults == {"none", "cut", "header lost", "content broken", "end in comment"}

Foreign(list, extra, tail, method, comment, fault) ==
    LET next(at, e) == Append(at, Last(at) + LocalLen + e.nameLen + extra + e.len)
        at == FoldLeft(next, <<0>>, list)
        start == Last(at)
        after(c, e) == Append(c, Last(c) + CentralLen + e.nameLen + tail)
        central == FoldLeft(after, <<start>>, list)
        end == Last(central)
        places(of) == {of[k] : k \in DOMAIN list}
        nth(of, o) == CHOOSE k \in DOMAIN list : of[k] = o
        content == [k \in DOMAIN list |-> at[k] + LocalLen + list[k].nameLen + extra]
    IN  [len      |-> end + EndLen + comment - (IF fault = "cut" THEN comment + 1 ELSE 0),
         locals   |-> [o \in places(at) \ (IF fault = "header lost" THEN {at[1]} ELSE {}) |->
                          [nameLen |-> list[nth(at, o)].nameLen, extra |-> extra]],
         centrals |-> [o \in places(central) |->
                          [Central(list[nth(central, o)], at[nth(central, o)])
                              EXCEPT !.tail = tail, !.method = method]],
         ends     |-> (end :> [count |-> Len(list), start |-> start])
                         @@ (IF fault = "end in comment"
                             THEN (end + EndLen) :> [count |-> 1, start |-> 0] ELSE <<>>),
         body     |-> [o \in places(content) \ (IF fault = "content broken" THEN {content[1]} ELSE {}) |->
                          [len |-> list[nth(content, o)].len, content |-> list[nth(content, o)].content]]]

\* An end signature in a comment that is too short to be an end is not found.
ForeignJob(list, extra, tail, method, comment, fault) ==
    [foreign |-> TRUE,
     entries |-> IF fault = "content broken" THEN [list EXCEPT ![1].content = Garbled] ELSE list,
     file    |-> Foreign(list, extra, tail, method, comment, fault),
     sound   |-> /\ fault = "none" \/ (fault = "end in comment" /\ comment < EndLen)
                 /\ comment <= MaxComment /\ method \in {"stored", "deflated"}]

-----------------------------------------------------------------------------
(* Properties.                                                              *)

\* What the first n of a list of entries are as files: the last of a name, and no
\* directory.
FilesUpTo(list, n) ==
    LET files == {k \in 1..n : ~list[k].dir}
    IN  [name \in {list[k].name : k \in files} |->
            list[Max({k \in files : list[k].name = name})].content]

FilesIn(list) == FilesUpTo(list, Len(list))

\* Whatever an archive is like, one that can be opened has the files that were put into
\* it, each with its own content: offsets that have lost their upper bits, a file that
\* ends early, headers of other lengths and ends that are none make it fail or make no
\* difference (open and read, zip.rs:32-98; write_stored_zip, zip_write.rs:13-73).
NeverAnotherContent == zipStage = "ok" => zipFiles = FilesIn(job.entries)

\* The central directory that was written begins where four bytes do not lead.
DirectoryTooFar ==
    DOMAIN out.centrals # {} /\ \A o \in DOMAIN out.centrals : o >= Width

\* An archive that is written without an error and of which all offsets fit their four
\* bytes can be opened again, and so can any sound one, whatever methods, extra fields
\* and comments it has: writing one fails for an entry or a number of entries that is
\* too great, and never for offsets (zip_write.rs:14-25).
WrittenCanBeOpened ==
    /\ zipStage = "error" /\ job.foreign => ~job.sound
    /\ zipStage = "error" /\ ~job.foreign =>
        \/ Len(job.entries) > MaxEntries
        \/ \E e \in Range(job.entries) : e.nameLen > MaxName \/ e.len >= Width
        \/ DirectoryTooFar
=============================================================================
