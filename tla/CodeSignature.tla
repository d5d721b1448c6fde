---------------------------- MODULE CodeSignature ----------------------------
(***************************************************************************)
(* parse_code_signature and parse_code_directory                            *)
(* (crates/macho_core/src/codesign.rs): the blobs that the slots of a       *)
(* signature lead to, in turn.  A number of the signature is either given   *)
(* or, where only its place matters, stands for the offset it is read from. *)
(***************************************************************************)
EXTENDS Integers, SequencesExt

CONSTANTS
    MaxSlots,       \* 256
    Signatures      \* the signatures that are read

\* Of a signature s are given its length (len), whether its magic is one that is known
\* (known), the length and the number of slots that it states (stated, count), what
\* each slot that is there says, and the blobs, by their offset.
HeadLen == 12
SlotLen == 8
BlobHead == 8

\* The magic of a blob; anything else is "other".
Magics == {"directory", "xml", "der", "cms", "requirements", "other"}

\* The versions of a code directory, as far as they are told apart: 0 stands for those
\* before 0x20100, and 1 to 4 for 0x20100 to 0x20400.
Scatter == 1
Team == 2
Limit64 == 3
ExecSeg == 4

ASSUME SignaturesAssumption ==
    /\ MaxSlots \in Nat
    /\ \A s \in Signatures :
         /\ s.len \in Nat /\ s.count \in Nat
         /\ \A o \in DOMAIN s.blobs :
              /\ s.blobs[o].magic \in Magics
              /\ s.blobs[o].magic = "directory" => s.blobs[o].version \in 0..ExecSeg /\ s.blobs[o].len \in Nat
         /\ s.len >= HeadLen => Len(s.slots) >= Min({s.count, (s.len - HeadLen) \div SlotLen})

None == -1

VARIABLES
    signature,
    slot,           \* the slot that is next
    result,         \* directory holds at most one
    csEnd           \* "reading", "ok" or "error"; "off" if no signature is read

csVars == <<signature, slot, result, csEnd>>

NothingFound ==
    [slots |-> <<>>, directory |-> <<>>, alternates |-> <<>>, xml |-> None, der |-> None,
     cms |-> None, requirements |-> FALSE]

\* The slots of which all is there: count may state more.
SlotsRead(s) == SubSeq(s.slots, 1, Min({s.count, (s.len - HeadLen) \div SlotLen}))

\* A faulty variant: as many slots as there are.
AcceptedAny(s) == s.len >= HeadLen /\ s.known /\ s.stated <= s.len

Accepted(s) ==
    s.len >= HeadLen /\ s.known /\ s.stated <= s.len /\ s.count <= MaxSlots

CsInit ==
    /\ signature \in Signatures
    /\ slot = 1
    /\ IF Accepted(signature)
       THEN /\ csEnd = "reading"
            /\ result = [NothingFound EXCEPT !.slots = SlotsRead(signature)]
       ELSE csEnd = "error" /\ result = NothingFound

NoSignature == [len |-> 0, known |-> FALSE, stated |-> 0, count |-> 0, slots |-> <<>>, blobs |-> <<>>]

CsOff == signature = NoSignature /\ slot = 1 /\ result = NothingFound /\ csEnd = "off"

-----------------------------------------------------------------------------
(* parse_code_directory.                                                     *)

\* A number of width bytes at pos of a blob of length len, if there.
Number(pos, width, len) == IF pos + width <= len THEN pos ELSE None

\* cstr_at: the text at an offset, of which the blob may have none that is readable.
Text(blob, o) == IF o # 0 /\ o < blob.len /\ o \in DOMAIN blob.texts THEN blob.texts[o] ELSE None

\* pos after each of the fields that a version adds.
AfterScatter(version) == IF version >= Scatter THEN 48 ELSE 44
AfterTeam(version) == AfterScatter(version) + (IF version >= Team THEN 4 ELSE 0)

\* A faulty variant: spare3 is not skipped.
AfterSpareNone(version) == AfterTeam(version)

AfterSpare(version) == AfterTeam(version) + (IF version >= Limit64 THEN 4 ELSE 0)
AfterLimit(version) == AfterSpare(version) + (IF version >= Limit64 THEN 8 ELSE 0)

\* A directory that is too short for its fixed part, or for the offset of a team that
\* its version has, is none.
Parses(blob) ==
    /\ blob.len >= 44
    /\ blob.version >= Team => Number(AfterScatter(blob.version), 4, blob.len) # None

ParseCodeDirectory(blob) ==
    LET v == blob.version
        limit == IF v >= Limit64 THEN Number(AfterSpare(v), 8, blob.len) ELSE None
        exec == IF v >= ExecSeg THEN Number(AfterLimit(v), 24, blob.len) ELSE None
    IN  [version |-> v, identifier |-> Text(blob, blob.ident),
         team |-> IF v >= Team THEN Text(blob, blob.team) ELSE None,
         codeLimit64 |-> limit,
         execSegBase |-> exec,
         execSegFlags |-> IF exec = None THEN None ELSE exec + 16]

-----------------------------------------------------------------------------

Reading == csEnd = "reading" /\ slot <= Len(result.slots)

Slot == result.slots[slot]

\* Whether all of the blob that a slot leads to is in the signature.
IsThere(s, offset) ==
    /\ offset \in DOMAIN s.blobs
    /\ offset + BlobHead <= s.len
    /\ s.blobs[offset].len >= BlobHead
    /\ offset + s.blobs[offset].len <= s.len

\* A slot that leads nowhere, or to what is not read, is passed over.
Skip ==
    /\ Reading
    /\ IsThere(signature, Slot.offset) =>
         LET blob == signature.blobs[Slot.offset]
         IN  blob.magic = "other" \/ (blob.magic = "directory" /\ ~Parses(blob))
    /\ slot' = slot + 1
    /\ UNCHANGED <<signature, result, csEnd>>

\* A faulty variant: the kind of a directory is not looked at, so an alternate one
\* takes the place of the first.
TakeAnyDirectory ==
    /\ Reading /\ IsThere(signature, Slot.offset)
    /\ LET blob == signature.blobs[Slot.offset]
       IN  /\ blob.magic = "directory" /\ Parses(blob)
           /\ result' = [result EXCEPT !.directory = <<ParseCodeDirectory(blob)>>]
    /\ slot' = slot + 1
    /\ UNCHANGED <<signature, csEnd>>

TakeDirectory ==
    /\ Reading /\ IsThere(signature, Slot.offset)
    /\ LET blob == signature.blobs[Slot.offset]
           cd == ParseCodeDirectory(blob)
       IN  /\ blob.magic = "directory" /\ Parses(blob)
           /\ result' = IF Slot.type = "directory"
                        THEN [result EXCEPT !.directory = <<cd>>]
                        ELSE [result EXCEPT !.alternates = Append(@, cd)]
    /\ slot' = slot + 1
    /\ UNCHANGED <<signature, csEnd>>

\* Of the others the magic of the blob decides, whatever the kind of the slot.
TakeBlob ==
    /\ Reading /\ IsThere(signature, Slot.offset)
    /\ LET m == signature.blobs[Slot.offset].magic
       IN  \/ m = "xml" /\ result' = [result EXCEPT !.xml = Slot.offset]
           \/ m = "der" /\ result' = [result EXCEPT !.der = Slot.offset]
           \/ m = "cms" /\ result' = [result EXCEPT !.cms = Slot.offset]
           \/ m = "requirements" /\ result' = [result EXCEPT !.requirements = TRUE]
    /\ slot' = slot + 1
    /\ UNCHANGED <<signature, csEnd>>

CsReturn ==
    /\ csEnd = "reading" /\ slot > Len(result.slots)
    /\ csEnd' = "ok"
    /\ UNCHANGED <<signature, slot, result>>

CsNext == Skip \/ TakeDirectory \/ TakeBlob \/ CsReturn

CsSpec == CsInit /\ [][CsNext]_csVars

-----------------------------------------------------------------------------
(* Properties.                                                              *)

\* The format: the offset, the length and the first version of each later field of a
\* code directory (scatterOffset at 44 and spare3 at 52 are not read); the base, limit
\* and flags of the executable segment are one field of three numbers.
Format == [team |-> <<48, 4, 2>>, codeLimit64 |-> <<56, 8, 3>>, execSeg |-> <<64, 24, 4>>]

AtFormat(blob, field) ==
    IF blob.version >= Format[field][3] /\ Format[field][1] + Format[field][2] <= blob.len
    THEN Format[field][1] ELSE None

CsTypeOK ==
    /\ csEnd \in {"off", "reading", "ok", "error"}
    /\ slot \in 1..(Len(result.slots) + 1)
    /\ Len(result.slots) <= MaxSlots
    /\ {result.xml, result.der, result.cms} \subseteq DOMAIN signature.blobs \cup {None}

\* Each later field of a code directory is taken from the offset that the format gives
\* it in that version, and from nowhere else: the fields that come before it and are
\* too long for the blob do not move it (the running pos of codesign.rs:155-181
\* against a table of the format).
FieldsAreInPlace ==
    LET blobs == {signature.blobs[s.offset] : s \in {x \in Range(result.slots) : IsThere(signature, x.offset)}}
        read == Range(result.alternates \o result.directory)
    IN  \A cd \in read : \E blob \in blobs :
            /\ blob.magic = "directory" /\ blob.version = cd.version
            /\ cd.codeLimit64 = AtFormat(blob, "codeLimit64")
            /\ cd.execSegBase = AtFormat(blob, "execSeg")
            /\ cd.execSegFlags = IF cd.execSegBase = None THEN None ELSE 80
            /\ cd.identifier = Text(blob, blob.ident)
            /\ cd.team = IF blob.version >= Format.team[3] THEN Text(blob, blob.team) ELSE None

\* The slots, up to the n-th, that lead to a blob of a kind; those that lead to a
\* directory which is whole; and those of these that are for the directory of the
\* signature and not for an alternate one.
Leads(m, n) ==
    {k \in 1..n : /\ IsThere(signature, result.slots[k].offset)
                  /\ signature.blobs[result.slots[k].offset].magic = m}

WholeDirectories(n) ==
    {k \in Leads("directory", n) :
        LET b == signature.blobs[result.slots[k].offset]
        IN  b.len >= (IF b.version >= 2 THEN Format.team[1] + Format.team[2] ELSE 44)}

MainDirectories(n) == {k \in WholeDirectories(n) : result.slots[k].type = "directory"}

LastOf(ks) == IF ks = {} THEN None ELSE result.slots[Max(ks)].offset

\* What the slots up to the n-th amount to.
FoundUpTo(n) ==
    /\ result.xml = LastOf(Leads("xml", n)) /\ result.der = LastOf(Leads("der", n))
    /\ result.cms = LastOf(Leads("cms", n))
    /\ result.requirements = (Leads("requirements", n) # {})
    /\ Len(result.alternates) = Cardinality(WholeDirectories(n) \ MainDirectories(n))
    /\ result.directory = IF MainDirectories(n) = {} THEN <<>>
                          ELSE <<ParseCodeDirectory(signature.blobs[LastOf(MainDirectories(n))])>>

\* One slot that leads nowhere, or a directory that is cut short, costs only itself:
\* every other blob of the slots is found, the last one of its kind, and the directory
\* of the signature is never an alternate one (the `continue`s and the `if let Ok` of
\* codesign.rs:95-132).
OneBadSlotLosesOnlyItself == csEnd = "ok" => FoundUpTo(Len(result.slots))
=============================================================================
