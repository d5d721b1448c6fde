----------------------------- MODULE MachoImage -----------------------------
(***************************************************************************)
(* A thin Mach-O image as its readers see it (crates/macho_core/src/file.rs *)
(* and chained.rs): the load commands, the sections, what is mapped at an   *)
(* address, and what a pointer leads to.  Pure operators on an image f:     *)
(*                                                                          *)
(*   f.commands  the load commands, in order                                *)
(*   f.fit       the command area lies in the file                          *)
(*   f.size      the length of the file                                     *)
(*   f.num       the numbers stored in the file, by offset; 0 elsewhere     *)
(*   f.text      the strings stored in the file, by offset                  *)
(*   f.fixups    the fixups of the chains, by offset (see ChainedFixups)    *)
(*                                                                          *)
(* Offsets and addresses count bytes.  A string is its rank in byte order.  *)
(* A number is 8 bytes wide and reads back as it was stored, or as its low  *)
(* half; a u32 has 16 bits here, which keeps its two top bits apart.        *)
(***************************************************************************)
EXTENDS Integers, SequencesExt

Failed == -2        \* Err
Nothing == -1       \* None; of a pointer, that it is a bind
Empty == 0          \* ""

\* How much of a command there is: with "command" it has a bad size or is not in
\* the command area, and neither is any after it; with "body" or "sections" it
\* ends before its own fields, or before the sections it announces.
Cuts == {"none", "command", "body", "sections"}

\* The first command at which a loop over the commands stops, or 0.
FirstOf(f, Stops(_)) ==
    LET at == {k \in DOMAIN f.commands : Stops(f.commands[k])}
    IN  IF at = {} THEN 0 ELSE Min(at)

SegmentError(c) == c.cut = "command" \/ (c.cmd = "segment" /\ c.cut = "body")

SectionError(c) == SegmentError(c) \/ (c.cmd = "segment" /\ c.cut = "sections")

SectionsIn(c, seg, name) ==
    IF c.cmd = "segment"
    THEN SelectSeq(c.sections, LAMBDA s : s.seg = seg /\ s.name = name)
    ELSE <<>>

\* find_section goes by the segment that the section itself names.
Lookup(f, seg, name) ==
    FirstOf(f, LAMBDA c : SectionError(c) \/ SectionsIn(c, seg, name) # <<>>)

LookupFails(f, seg, name) ==
    LET k == Lookup(f, seg, name)
    IN  ~f.fit \/ (k # 0 /\ SectionError(f.commands[k]))

\* The section, in a sequence of its own, if there is one and no error.
FindSection(f, seg, name) ==
    LET k == Lookup(f, seg, name)
    IN  IF k = 0 \/ LookupFails(f, seg, name) THEN <<>>
        ELSE <<Head(SectionsIn(f.commands[k], seg, name))>>

SectionData(f, s) == s.offset + s.size <= f.size

\* find_cmd: the first command of a kind, unless one that is cut short comes first.
FindCmd(f, cmd) ==
    LET k == FirstOf(f, LAMBDA c : c.cut = "command" \/ c.cmd = cmd)
    IN  IF ~f.fit THEN Failed
        ELSE IF k = 0 THEN 0
        ELSE IF f.commands[k].cut \in {"command", "body"} THEN Failed
        ELSE k

\* A segment without content in the file maps nothing.
VaddrToOffset(f, va) ==
    LET maps(c) == /\ c.cmd = "segment"
                   /\ c.filesize # 0
                   /\ va \in c.vmaddr..(c.vmaddr + c.filesize - 1)
        k == FirstOf(f, LAMBDA c : SegmentError(c) \/ maps(c))
    IN  IF ~f.fit \/ k = 0 \/ SegmentError(f.commands[k]) THEN Failed
        ELSE f.commands[k].fileoff + (va - f.commands[k].vmaddr)

Stored(f, o) == IF o \in DOMAIN f.num THEN f.num[o] ELSE 0

ReadU64(f, va) ==
    LET o == VaddrToOffset(f, va)
    IN  IF o = Failed \/ o + 8 > f.size THEN Failed ELSE Stored(f, o)

ReadU32(f, va) ==
    LET o == VaddrToOffset(f, va)
    IN  IF o = Failed \/ o + 4 > f.size THEN Failed ELSE Stored(f, o) % 2^16

ReadI32(f, va) ==
    LET n == ReadU32(f, va) IN IF n >= 2^15 THEN n - 2^16 ELSE n

\* A string that is not UTF-8 is Nothing; a number other than 0 does not read
\* as one.
ReadCstr(f, va) ==
    LET o == VaddrToOffset(f, va)
    IN  IF o = Failed \/ o > f.size THEN Nothing
        ELSE IF o \in DOMAIN f.text THEN f.text[o]
        ELSE IF Stored(f, o) = 0 THEN Empty ELSE Nothing

\* resolve_vaddr: where the pointer at va leads, Nothing if it is a bind.
Resolve(f, va) ==
    LET o == VaddrToOffset(f, va)
    IN  IF o \in DOMAIN f.fixups
        THEN IF f.fixups[o].kind = "rebase" THEN f.fixups[o].va ELSE Nothing
        ELSE ReadU64(f, va)

\* bind_name_at_vaddr: the symbol that the pointer at va is bound to, or {}.
BoundTo(f, va) ==
    LET o == VaddrToOffset(f, va)
    IN  IF o \in DOMAIN f.fixups /\ f.fixups[o].kind = "bind" THEN f.fixups[o].symbol ELSE {}

\* What is to be read at an address, in one record.
Memory(f) ==
    [pointer |-> [va \in Int |-> Resolve(f, va)],
     symbol  |-> [va \in Int |-> BoundTo(f, va)],
     string  |-> [va \in Int |-> ReadCstr(f, va)],
     u32     |-> [va \in Int |-> ReadU32(f, va)],
     i32     |-> [va \in Int |-> ReadI32(f, va)],
     u64     |-> [va \in Int |-> ReadU64(f, va)]]

\* strip_prefix of a symbol: its base if it starts with one of the prefixes.
Stripped(symbol, prefixes) ==
    IF symbol.prefix \in prefixes THEN symbol.base ELSE symbol.whole

\* The address of __TEXT, or else of the first segment that has content.
PreferredLoadAddress(f) ==
    LET text(c) == c.cmd = "segment" /\ c.name = "__TEXT"
        k == FirstOf(f, LAMBDA c : SegmentError(c) \/ text(c))
        first == FirstOf(f, LAMBDA c : c.cmd = "segment" /\ c.filesize > 0)
    IN  IF ~f.fit \/ (k # 0 /\ SegmentError(f.commands[k])) THEN Failed
        ELSE IF k # 0 THEN f.commands[k].vmaddr
        ELSE IF first # 0 THEN f.commands[first].vmaddr ELSE 0

\* chained_fixups, up to its payload: what that says is f.fixups.
FixupsFail(f) ==
    LET k == FindCmd(f, "chained_fixups")
    IN  \/ k = Failed
        \/ k = 0 /\ PreferredLoadAddress(f) = Failed
        \/ k > 0 /\ f.commands[k].dataoff + f.commands[k].datasize > f.size

\* The first of the segments that hold pointers which has the section.
PointerSegments == <<"__DATA_CONST", "__DATA", "__AUTH_CONST", "__AUTH">>

FirstSection(f, name) ==
    LET with == {k \in DOMAIN PointerSegments : FindSection(f, PointerSegments[k], name) # <<>>}
    IN  IF with = {} THEN <<>> ELSE FindSection(f, PointerSegments[Min(with)], name)

\* chunks_exact(8)
Slots(section) == section.size \div 8
SlotVa(section, i) == section.addr + 8 * (i - 1)
=============================================================================
