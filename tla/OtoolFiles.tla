---------------------------- MODULE OtoolFiles -----------------------------
(***************************************************************************)
(* The otool command (crates/apple_re_cli/src/otool.rs) over its input      *)
(* files: for each, the archive listing, the fat headers, and the dump of   *)
(* one slice or of all.  It prints as it goes, and the first error ends it. *)
(***************************************************************************)
EXTENDS FatMacho

CONSTANTS
    Inputs,         \* lists of files: what load_object_bytes returns of each
    Wants           \* values of --arch; "all" and NoArch among them or not

ASSUME InputsAssumption ==
    \A files \in Inputs : files \in Seq(File) /\ \A f \in Range(files) :
        f.kind = "thin" => Len(f.slices) = 1

VARIABLES
    files,          \* the arguments
    want,           \* --arch
    flags,          \* what is to be dumped: of archives, fat headers, slices
    pc,             \* where dump_file stands in files[at]
    at,
    slice,          \* the loop of --arch all, from 1
    printed,        \* what was printed
    status

vars == <<files, want, flags, pc, at, slice, printed, status>>

\* What -a and -S need, -f needs, and all the other flags need.
Flags == {"archive", "fat", "thin"}

Lines == [file : Nat, what : {"archive", "fat", "name", "thin"}, slice : Nat]

Init ==
    /\ files \in Inputs
    /\ want \in Wants \cup {NoArch}
    /\ flags \in SUBSET Flags \ {{}}    \* run: no flag at all is an error
    /\ pc = "load"
    /\ at = 1
    /\ slice = 1
    /\ printed = <<>>
    /\ status = "running"

Running(where) == status = "running" /\ pc = where /\ at <= Len(files)

Line(what, k) == [file |-> at, what |-> what, slice |-> k]

Constant == UNCHANGED <<files, want, flags>>

-----------------------------------------------------------------------------

\* A faulty variant: the loop over the slices goes on where it was.
NextFileSameSlice ==
    /\ pc' = "load"
    /\ at' = at + 1
    /\ UNCHANGED <<slice, status>>

NextFile ==
    /\ pc' = "load"
    /\ at' = at + 1
    /\ slice' = 1
    /\ UNCHANGED status

GoTo(where) == pc' = where /\ UNCHANGED <<at, slice, status>>

Error == status' = "error" /\ UNCHANGED <<pc, at, slice>>

\* load_object_bytes: the file, the member of an archive, or the executable of
\* an IPA, if it can be read.
LoadObject ==
    /\ Running("load")
    /\ Constant
    /\ GoTo("archive") \/ Error
    /\ UNCHANGED printed

\* The archives of files[at]: the file, or the slices of a fat file, that hold
\* one.  Every slice that matches is looked at, not just the first.
ArchivesOf(f) ==
    {k \in DOMAIN f.slices :
        /\ f.slices[k].holds = "archive"
        /\ f.kind = "fat" => want \in {"all", NoArch} \/ ArchMatches(want, f.slices[k].arch)}

\* The members of a set of numbers in their order.
InOrder(S) ==
    {list \in [1..Cardinality(S) -> S] : \A j, k \in DOMAIN list : j < k => list[j] < list[k]}

\* dump_archive_maybe_fat.  The listing itself (the symbol table) can fail.
DumpArchives ==
    /\ Running("archive")
    /\ Constant
    /\ IF "archive" \notin flags
       THEN GoTo("fat") /\ UNCHANGED printed
       ELSE \E found \in InOrder(ArchivesOf(files[at])) :
              LET listing(n) == [k \in 1..n |-> Line("archive", found[k])]
              IN  \/ \E n \in 0..Len(found) :
                       printed' = printed \o listing(n) /\ Error
                  \/ /\ found # <<>>
                     /\ printed' = printed \o listing(Len(found))
                     /\ IF flags = {"archive"} THEN NextFile ELSE GoTo("fat")

\* dump_fat_headers, and the choice between one slice and all of them.
DumpFatHeaders ==
    /\ Running("fat")
    /\ Constant
    /\ LET f == files[at]
           fat == f.kind = "fat"
       IN  IF fat /\ f.slices = <<>> /\ ("fat" \in flags \/ want = "all")
           THEN Error /\ UNCHANGED printed
           ELSE /\ printed' = printed \o
                      (IF "fat" \in flags /\ fat THEN <<Line("fat", 0)>> ELSE <<>>)
                /\ IF want = "all" /\ fat THEN GoTo("all")
                   ELSE IF "thin" \in flags THEN GoTo("one")
                   ELSE NextFile

\* dump_thin can fail half way.
DumpFails(k, after) ==
    /\ "thin" \in flags
    /\ printed' = printed \o after \o <<Line("thin", k)>>
    /\ Error

\* One turn of the loop of --arch all: the slice is looked up by its name.
DumpNext ==
    /\ Running("all")
    /\ Constant
    /\ LET f == files[at]
           name == <<Line("name", slice)>>
           found == ParseArch(f, ArchName(f.slices[slice].arch))
       IN  IF slice > Len(f.slices) THEN NextFile /\ UNCHANGED printed
           ELSE \/ found = {} /\ printed' = printed \o name /\ Error
                \/ \E k \in found : DumpFails(k, name)
                \/ \E k \in found :
                     /\ printed' = printed \o name \o
                            (IF "thin" \in flags THEN <<Line("thin", k)>> ELSE <<>>)
                     /\ slice' = slice + 1
                     /\ UNCHANGED <<pc, at, status>>

\* "all" of a thin file is the file.
DumpOne ==
    /\ Running("one")
    /\ Constant
    /\ LET found == ParseArch(files[at], IF want = "all" THEN NoArch ELSE want)
       IN  \/ found = {} /\ Error /\ UNCHANGED printed
           \/ \E k \in found : DumpFails(k, <<>>)
           \/ \E k \in found :
                /\ printed' = Append(printed, Line("thin", k))
                /\ NextFile

Finish ==
    /\ status = "running"
    /\ at > Len(files)
    /\ status' = "ok"
    /\ UNCHANGED <<files, want, flags, pc, at, slice, printed>>

Next == LoadObject \/ DumpArchives \/ DumpFatHeaders \/ DumpNext \/ DumpOne \/ Finish

Spec == Init /\ [][Next]_vars
-----------------------------------------------------------------------------
(* Properties.                                                              *)

TypeOK ==
    /\ pc \in {"load", "archive", "fat", "one", "all"}
    /\ at \in 1..(Len(files) + 1)
    /\ at <= Len(files) => slice \in 1..(Len(files[at].slices) + 1)
    /\ printed \in Seq(Lines)
    /\ status \in {"running", "ok", "error"}

Thin(n) == {k \in DOMAIN printed : printed[k].file = n /\ printed[k].what = "thin"}

ArchOf(line) == files[line.file].slices[line.slice].arch

\* A slice that is dumped is one that was asked for: by the name printed above
\* it, by --arch, or, with no architecture named, an ARM64 slice if the file
\* has one, and one without pointer authentication if it has one of those.
DumpsWhatIsAsked ==
    \A n \in DOMAIN files : \A k \in Thin(n) :
        LET arch == ArchOf(printed[k])
            has(S) == \E s \in Range(files[n].slices) : s.arch \in S
        IN  IF want = "all" /\ files[n].kind = "fat"
            THEN /\ printed[k - 1].what = "name"
                 /\ ArchMatches(ArchName(ArchOf(printed[k - 1])), arch)
            ELSE IF want \notin {"all", NoArch} THEN ArchMatches(want, arch)
            ELSE /\ has({"arm64", "arm64v8", "arm64e"}) => CpuType(arch) = "ARM64"
                 /\ has({"arm64", "arm64v8"}) => arch # "arm64e"

\* No two slices have one name, and no name stands for another slice too.
NamesAreClear(f) ==
    \A j, k \in DOMAIN f.slices :
        j # k => ~ArchMatches(ArchName(f.slices[j].arch), f.slices[k].arch)

Dumped(n) == {printed[k].slice : k \in Thin(n)}

\* --arch all dumps the slices of a file whose names are clear, each once, in
\* the order of the fat table and without leaving one out, up to the error that
\* ends the command (dump_file, otool.rs:219-229).
AllDumpsEachSlice ==
    \A n \in DOMAIN files :
        (want = "all" /\ "thin" \in flags /\ NamesAreClear(files[n])) =>
            /\ \A j, k \in Thin(n) : j < k => printed[j].slice < printed[k].slice
            /\ \E m \in 0..Len(files[n].slices) : Dumped(n) = 1..m
            /\ status = "ok" \/ n < at => Dumped(n) = DOMAIN files[n].slices

\* The commands on an IPA, which call parse, and the ones on files, which call
\* parse_arch, look at the same slice of a binary when none is named; and every
\* architecture that class-dump --list-arches lists can be asked for.
DefaultsAgree ==
    \A f \in Range(files) :
        /\ Parse(f) = ParseArch(f, NoArch)
        /\ \A s \in Range(f.slices) : FatSelect(f.slices, ArchName(s.arch)) # {}

\* "Architecture slice (`-arch`), or `all`" (otool.rs:104): with all, every
\* slice of a file of different architectures is dumped, unless an error ends
\* the command.
EverySliceIsDumped ==
    \A n \in DOMAIN files :
        LET slices == files[n].slices
            different == \A j, k \in DOMAIN slices : j # k => slices[j].arch # slices[k].arch
        IN  (want = "all" /\ "thin" \in flags /\ status = "ok" /\ different) =>
                \A j \in DOMAIN slices : \E k \in Thin(n) : printed[k].slice = j

\* "`None` prefers `arm64`, then `arm64e`, then the first 64-bit slice"
\* (crates/macho_core/src/file.rs:116): when otool opens a file without --arch
\* that has a 64-bit Mach-O slice (and no archives), it opens one.
OpensA64BitSlice ==
    (Running("one") /\ want = NoArch) =>
        \/ \A s \in Range(files[at].slices) : s.holds # "macho"
        \/ \E s \in Range(files[at].slices) : s.holds = "archive"
        \/ \E k \in FatSelect(files[at].slices, NoArch) : Is64Bit(files[at].slices[k].arch)
=============================================================================
