----------------------------- MODULE FatMacho ------------------------------
(***************************************************************************)
(* Which slice of a Mach-O file is opened (crates/macho_core/src/file.rs    *)
(* and names.rs): thin and fat files, architecture names, and the slice     *)
(* that an architecture argument, or none, stands for.  Pure operators.     *)
(*                                                                          *)
(* An architecture is what cputype and the masked cpusubtype identify.      *)
(***************************************************************************)
EXTENDS Integers, SequencesExt

CONSTANT NoArch     \* no architecture argument

CpuType(arch) ==
    CASE arch \in {"arm64", "arm64v8", "arm64e"} -> "ARM64"
      [] arch \in {"x86_64", "x86_64h"}          -> "X86_64"
      [] arch = "i386"                           -> "X86"
      [] arch = "armv7"                          -> "ARM"
      [] arch = "arm64_32"                       -> "ARM64_32"

Archs == {"arm64", "arm64v8", "arm64e", "x86_64", "x86_64h", "i386", "armv7", "arm64_32"}

ASSUME NoArchAssumption == NoArch \notin Archs

\* x86_64 subtypes have no names of their own.
ArchName(arch) == IF arch = "x86_64h" THEN "x86_64" ELSE arch

ArchMatches(want, arch) ==
    \/ want = ArchName(arch)
    \/ want = "aarch64" /\ CpuType(arch) = "ARM64"
    \/ want = "arm64" /\ CpuType(arch) = "ARM64" /\ arch # "arm64e"
    \/ want = "x86-64" /\ CpuType(arch) = "X86_64"
    \/ want = "x86" /\ CpuType(arch) = "X86"

\* The 32-bit architectures have a magic that parse_thin_any does not take.
Is64Bit(arch) == arch \notin {"i386", "armv7", "arm64_32"}

\* What an entry of the fat table leads to: a Mach-O that parse_thin_any takes
\* ("macho"), an archive, or neither (a slice that is out of the file, too).
Slice == {s \in [arch : Archs, holds : {"macho", "archive", "neither"}] :
            s.holds = "macho" => Is64Bit(s.arch)}

\* A thin file is one slice; a fat file whose table cannot be read, or is
\* empty, has none.
File == [kind : {"thin", "fat"}, slices : Seq(Slice)]

\* A faulty variant: the preference for arm64 goes by the type alone.
FirstByCpuType(arches, want) ==
    LET all == 1..Len(arches)
        matching == {k \in all : want # NoArch /\ ArchMatches(want, arches[k].arch)}
        ofType == {k \in all : want = NoArch /\ CpuType(arches[k].arch) = "ARM64"}
    IN  IF matching \cup ofType # {} THEN {Min(matching \cup ofType)}
        ELSE {k \in {1} \cap all : want = NoArch}

\* parse_fat_select: the entry for want; for no argument arm64, arm64e, any
\* slice of their type, or whatever comes first.
FatSelect(arches, want) ==
    LET all == 1..Len(arches)
        first(S) == IF S = {} THEN {} ELSE {Min(S)}
        matching(w) == {k \in all : ArchMatches(w, arches[k].arch)}
        ofType == {k \in all : CpuType(arches[k].arch) = "ARM64"}
    IN  IF want # NoArch THEN first(matching(want))
        ELSE IF matching("arm64") # {} THEN first(matching("arm64"))
        ELSE IF matching("arm64e") # {} THEN first(matching("arm64e"))
        ELSE IF ofType # {} THEN first(ofType)
        ELSE first(all)

\* MachoFile::parse_arch: the index of the slice that is opened, if one is.
ParseArch(file, want) ==
    {k \in IF file.kind = "thin"
           THEN {j \in {1} : want = NoArch \/ ArchMatches(want, file.slices[j].arch)}
           ELSE FatSelect(file.slices, want) : file.slices[k].holds = "macho"}

\* MachoFile::parse, which the commands on an IPA use.
Parse(file) ==
    IF ParseArch(file, "arm64") # {} THEN ParseArch(file, "arm64") ELSE ParseArch(file, NoArch)
=============================================================================
