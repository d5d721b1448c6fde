--------------------------- MODULE ChainedFixups ---------------------------
(***************************************************************************)
(* parse_chained_fixups (crates/macho_core/src/chained.rs): the pointers of *)
(* an image that LC_DYLD_CHAINED_FIXUPS links into chains, one or more for  *)
(* each page of a segment, and what each of them will point to.             *)
(*                                                                          *)
(* Offsets count 4-byte units, the smallest stride; a pointer takes two.    *)
(* The words of the file are revealed as the chains reach them.             *)
(***************************************************************************)
EXTENDS Integers, SequencesExt

CONSTANTS
    FileSize,       \* of the thin slice, in units
    PageSize,       \* in units
    Segments,       \* the dyld_chained_starts_in_segment records
    MaxSegments,    \* bound: the segments of an image
    MaxNext,        \* 2^11 - 1, what fits the low bits of a word's "next"
    Values,         \* what fits a word's target or ordinal
    Words,          \* the words the chains find in the file
    ImageBase,      \* preferred_load_address
    VaWidth,        \* 2^64: addresses wrap
    Imports,        \* import names, by ordinal; NoName where there is none
    NoName

Arm64e == {"ARM64E", "ARM64E_USERLAND", "ARM64E_USERLAND24", "ARM64E_KERNEL"}
Generic64 == {"64", "64_OFFSET"}
Formats == Arm64e \cup Generic64 \cup {"UNKNOWN"}

\* An element of the page_start table.  "multi" is the bit 0x8000: of a page,
\* START_MULTI; of an overflow entry, START_LAST.  "none" is START_NONE.
PageStart == [none : BOOLEAN, multi : BOOLEAN, start : Nat]

\* The bits a word is decoded from; next is 11 bits wide, or 12 with bit 62.
Word == [b63 : BOOLEAN, b62 : BOOLEAN, next : 0..MaxNext, value : Values]

ASSUME WordsAssumption == Words \subseteq Word
ASSUME SegmentsAssumption ==
    \A s \in Segments : /\ s.format \in Formats
                        /\ s.offset \in Nat
                        /\ s.pages \in 0..Len(s.table)
                        /\ s.table \in Seq(PageStart)
ASSUME SizesAssumption ==
    /\ FileSize \in Nat /\ PageSize \in Nat /\ MaxNext \in Nat
    /\ MaxSegments \in Nat /\ Values \subseteq Nat
    /\ ImageBase \in Nat /\ VaWidth \in Nat \ {0}

VARIABLES
    segments,       \* the records that are not skipped as absent or cut short
    seg, page,      \* the loops over them, from 1
    starts,         \* chain_starts: the chains of the page still to be walked
    at,             \* chain_off, or NoChain between chains
    fixups,         \* by_file_offset
    word            \* history: the words of the file that were read

vars == <<segments, seg, page, starts, at, fixups, word>>

NoChain == -1

\* A faulty variant: only the start of the pointer has to be in the file.
StartReadable(o) == o < FileSize

Readable(o) == o + 2 <= FileSize

Rebase(va) == [kind |-> "rebase", va |-> va % VaWidth]
Bind(ordinal) ==
    [kind |-> "bind", ordinal |-> ordinal,
     name |-> IF ordinal < Len(Imports) THEN Imports[ordinal + 1] ELSE NoName]

\* decode_ptr: the target, or nothing.  Authenticated pointers are skipped.
DecodePtr(w, format) ==
    CASE format \in Generic64 ->
            {IF w.b63 THEN Bind(w.value)
             ELSE Rebase(IF format = "64" THEN w.value ELSE ImageBase + w.value)}
      [] format \in Arm64e /\ ~w.b63 ->
            {IF w.b62 THEN Bind(w.value)
             ELSE Rebase(IF format = "ARM64E" THEN w.value ELSE ImageBase + w.value)}
      [] OTHER -> {}

Stride(format) == IF format \in Arm64e \ {"ARM64E_KERNEL"} THEN 2 ELSE 1

NextDelta(w, format) ==
    Stride(format) * (IF format \in Arm64e \/ ~w.b62 THEN w.next ELSE w.next + MaxNext + 1)

\* A faulty variant: the entry with START_LAST is taken for an end marker.
ChainStartsBeforeLast(table, p) ==
    IF table[p].none THEN <<>>
    ELSE IF ~table[p].multi THEN <<table[p].start>>
    ELSE LET first == table[p].start + 1
             lasts == {k \in first..Len(table) : table[k].multi}
             last  == IF lasts = {} THEN Len(table) ELSE Min(lasts) - 1
         IN  [k \in 1..(last - first + 1) |-> table[first + k - 1].start]

\* Where the chains of page p start, within the page.  A page with several has
\* them in the entries from table[p].start on, up to one with START_LAST or to
\* the end of the payload.
ChainStarts(table, p) ==
    IF table[p].none THEN <<>>
    ELSE IF ~table[p].multi THEN <<table[p].start>>
    ELSE LET first == table[p].start + 1
             lasts == {k \in first..Len(table) : table[k].multi}
             last  == IF lasts = {} THEN Len(table) ELSE Min(lasts)
         IN  [k \in 1..(last - first + 1) |-> table[first + k - 1].start]

Init ==
    /\ segments \in UNION {[1..n -> Segments] : n \in 0..MaxSegments}
    /\ seg = 1
    /\ page = 0
    /\ starts = <<>>
    /\ at = NoChain
    /\ fixups = [o \in {} |-> Rebase(0)]
    /\ word = [o \in {} |-> o]

-----------------------------------------------------------------------------

Done == seg > Len(segments)

PageIsDone == ~Done /\ at = NoChain /\ starts = <<>>

NextPage ==
    /\ PageIsDone
    /\ page < segments[seg].pages
    /\ page' = page + 1
    /\ starts' = ChainStarts(segments[seg].table, page')
    /\ UNCHANGED <<segments, seg, at, fixups, word>>

NextSegment ==
    /\ PageIsDone
    /\ page = segments[seg].pages
    /\ seg' = seg + 1
    /\ page' = 0
    /\ UNCHANGED <<segments, starts, at, fixups, word>>

StartChain ==
    /\ ~Done /\ at = NoChain /\ starts # <<>>
    /\ at' = segments[seg].offset + (page - 1) * PageSize + Head(starts)
    /\ starts' = Tail(starts)
    /\ UNCHANGED <<segments, seg, page, fixups, word>>

LeaveFile ==
    /\ at # NoChain
    /\ ~Readable(at)
    /\ at' = NoChain
    /\ UNCHANGED <<segments, seg, page, starts, fixups, word>>

\* by_file_offset.insert, if there is a target.
InsertFixup(targets) ==
    IF targets = {} THEN UNCHANGED fixups
    ELSE \E t \in targets :
           fixups' = [o \in DOMAIN fixups \cup {at} |-> IF o = at THEN t ELSE fixups[o]]

ReadWord(w) ==
    /\ at # NoChain
    /\ Readable(at)
    /\ at \in DOMAIN word => w = word[at]
    /\ word' = [o \in DOMAIN word \cup {at} |-> IF o = at THEN w ELSE word[o]]

\* A faulty variant: the chain goes on when next is 0.
WalkOn(w) ==
    LET format == segments[seg].format
    IN  /\ ReadWord(w)
        /\ InsertFixup(DecodePtr(w, format))
        /\ at' = at + NextDelta(w, format)
        /\ UNCHANGED <<segments, seg, page, starts>>

\* One pointer of a chain: w is what the file has there.
Walk(w) ==
    LET format == segments[seg].format
        delta == NextDelta(w, format)
    IN  /\ ReadWord(w)
        /\ InsertFixup(DecodePtr(w, format))
        /\ at' = IF delta = 0 THEN NoChain ELSE at + delta
        /\ UNCHANGED <<segments, seg, page, starts>>

Next == NextPage \/ NextSegment \/ StartChain \/ LeaveFile \/ (\E w \in Words : Walk(w))

\* Loops: they go on.
Spec == Init /\ [][Next]_vars /\ WF_vars(Next)

-----------------------------------------------------------------------------
(* Properties.                                                              *)

Targets ==
    {Rebase(va) : va \in 0..(VaWidth - 1)} \cup {Bind(ordinal) : ordinal \in Values}

\* The walk never reads, and so never records, what is not all in the file.
TypeOK ==
    /\ seg \in 1..(Len(segments) + 1)
    /\ page \in Nat
    /\ at \in Nat \cup {NoChain}
    /\ \A o \in DOMAIN word : o \in 0..(FileSize - 2) /\ word[o] \in Word
    /\ DOMAIN fixups \subseteq DOMAIN word
    /\ \A o \in DOMAIN fixups : fixups[o] \in Targets

\* The reference: the readable offsets at which a chain of the segment starts
\* or to which a pointer on one of its chains leads.  Entry k of the table
\* starts a chain of page p if it is the page's own, or if it is from the
\* page's first overflow entry on and no entry between them is the last.
StartsChain(t, p, k) ==
    LET first == t[p].start + 1
    IN  IF t[p].multi THEN k >= first /\ \A j \in first..(k - 1) : ~t[j].multi
                      ELSE k = p

StartsOf(s) ==
    {s.offset + (q[1] - 1) * PageSize + s.table[q[2]].start :
        q \in {r \in (1..s.pages) \X DOMAIN s.table :
                  ~s.table[r[1]].none /\ StartsChain(s.table, r[1], r[2])}}

OnChainsOf(s) ==
    LET first == StartsOf(s)
        on[o \in DOMAIN word] ==
            \/ o \in first
            \/ \E p \in DOMAIN word :
                 p < o /\ p + NextDelta(word[p], s.format) = o /\ on[p]
    IN  {o \in DOMAIN word : on[o]}

\* What the chains of one segment say.
Decoded(s) ==
    [o \in {x \in OnChainsOf(s) : DecodePtr(word[x], s.format) # {}} |->
        CHOOSE t \in DecodePtr(word[o], s.format) : TRUE]

\* The fixups are those of the chains: no pointer of a chain is left out, none
\* that is on no chain gets in, and where the chains of two segments meet the
\* later segment has its way.
FixupsAreTheChains ==
    LET said(k) == DOMAIN Decoded(segments[k])
    IN  Done =>
          /\ DOMAIN fixups = UNION {said(k) : k \in DOMAIN segments}
          /\ \A k \in DOMAIN segments :
               \A o \in said(k) :
                 (\A later \in DOMAIN segments : later > k => o \notin said(later)) =>
                     fixups[o] = Decoded(segments[k])[o]

\* The walk ends, whatever the chains are: they run into each other, out of
\* their page, into the next segment and out of the file.
WalkEnds == <>Done
=============================================================================
