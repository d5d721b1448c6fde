------------------------------ MODULE ObjcRefs ------------------------------
(***************************************************************************)
(* ObjcRefs::parse (crates/apple_metadata/src/refs.rs): the names of the    *)
(* classes, protocols and selectors that an image refers to.  Pure          *)
(* operators.                                                               *)
(***************************************************************************)
EXTENDS ObjcMetadata

\* A placeholder is "class_0x..", "protocol_0x.." or "sel_0x..".
CONSTANT PlaceholderOf(_, _)

\* Unlike objc.rs, which looks in every segment, refs.rs stops at the first
\* segment that has the section.
RefSectionFails(f, name) ==
    LET at == {k \in DOMAIN PointerSegments :
                 \/ LookupFails(f, PointerSegments[k], name)
                 \/ FindSection(f, PointerSegments[k], name) # <<>>}
    IN  at # {} /\ \/ LookupFails(f, PointerSegments[Min(at)], name)
                   \/ \E s \in Range(FirstSection(f, name)) : ~SectionData(f, s)

\* A faulty variant: the tag in the low bits of the data pointer stays.
RefClassNameTagged(m, class) == NameAt(m, OrZero(m.pointer[class + 32]) + 24)

\* class_name_at.  Whether what data leads to is a class_ro_t goes by its name
\* pointer alone, not by the string.
RefClassName(m, class) ==
    LET data == m.pointer[class + 32]
        here == m.pointer[ClearTag(data) + 24]
        rw == m.pointer[ClearTag(data) + 8]
    IN  IF data \in {Failed, Nothing} THEN Nothing
        ELSE IF here \notin {Failed, Nothing} THEN m.string[here]
        ELSE IF rw \in {Failed, Nothing} THEN Nothing
        ELSE NameAt(m, ClearTag(rw) + 24)

\* What each kind of reference leads to is named by, and what is taken off the
\* symbol of one that leads out of the image ("_" stands for leading underscores).
Kinds == {"class", "protocol", "sel"}

TargetName(m, kind, target) ==
    LET name == CASE kind = "class"    -> RefClassName(m, target)
                  [] kind = "protocol" -> NameAt(m, target + 8)
                  [] kind = "sel"      -> m.string[target]
    IN  IF name = Nothing THEN PlaceholderOf(kind, target) ELSE name

SymbolPrefixes == [class |-> {"class", "metaclass"}, protocol |-> {"protocol"}, sel |-> {"_"}]

External(m, kind, slotVa) ==
    IF m.symbol[slotVa] = {} THEN Question
    ELSE LET symbol == CHOOSE s \in m.symbol[slotVa] : TRUE
         IN  Stripped(symbol, SymbolPrefixes[kind])

Ref(m, kind, va) ==
    LET target == m.pointer[va]
    IN  IF target = Nothing
        THEN [va |-> va, target |-> Nothing, name |-> External(m, kind, va)]
        ELSE [va |-> va, target |-> target, name |-> TargetName(m, kind, target)]

SectionSlots(f, name) ==
    IF FirstSection(f, name) = <<>> THEN <<>>
    ELSE LET s == Head(FirstSection(f, name)) IN [i \in 1..Slots(s) |-> SlotVa(s, i)]

\* Null slots are left out.
RefsIn(f, m, kind, name) ==
    LET there == SelectSeq(SectionSlots(f, name), LAMBDA va : m.pointer[va] # 0)
    IN  [k \in DOMAIN there |-> Ref(m, kind, there[k])]

RefSections == {"__objc_classrefs", "__objc_superrefs", "__objc_protorefs", "__objc_selrefs"}

RefsFail(f) ==
    \/ FixupsFail(f)
    \/ \E name \in RefSections :
         \/ RefSectionFails(f, name)
         \/ ~AllReadable(Memory(f), Range(SectionSlots(f, name)))

AllRefs(f, m) ==
    [classRefs |-> RefsIn(f, m, "class", "__objc_classrefs"),
     superRefs |-> RefsIn(f, m, "class", "__objc_superrefs"),
     protoRefs |-> RefsIn(f, m, "protocol", "__objc_protorefs"),
     selRefs   |-> RefsIn(f, m, "sel", "__objc_selrefs")]

ParseRefs(f) == AllRefs(f, Memory(f))
=============================================================================
