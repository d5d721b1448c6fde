---------------------------- MODULE ObjcMetadata ----------------------------
(***************************************************************************)
(* ObjcMetadata::parse (crates/apple_metadata/src/objc.rs): the classes,    *)
(* categories and protocols of an image, list by list and slot by slot.     *)
(* Pointers are followed through the fixups (m is the image's memory); what *)
(* cannot be read is left out, at a level that depends on where it is.      *)
(***************************************************************************)
EXTENDS MachoImage

CONSTANTS
    Question,       \* "?"
    MaxMethods,     \* 8192, 4096, 4096, 512: the entries that are read of a
    MaxIvars,       \* list, whatever its count says
    MaxProperties,
    MaxProtocols,
    Placeholder(_)  \* "class_0x..", the name of a class that has none

ASSUME CapsAssumption == {MaxMethods, MaxIvars, MaxProperties, MaxProtocols} \subseteq Nat

OrZero(p) == IF p = Nothing THEN 0 ELSE p

OrEmpty(name) == IF name = Nothing THEN Empty ELSE name

ClearTag(p) == p - (p % 2)

\* The string that the pointer at va leads to, if it can be read.
NameAt(m, va) ==
    IF m.pointer[va] \in {Failed, Nothing} THEN Nothing ELSE m.string[m.pointer[va]]

\* A pointer that may be absent but has to be readable leads to what Parse
\* makes of its target.
Follow(m, va, Parse(_)) == IF OrZero(m.pointer[va]) = 0 THEN <<>> ELSE Parse(OrZero(m.pointer[va]))

AllReadable(m, vas) == \A va \in vas : m.pointer[va] # Failed

\* The entries of a list at the positions ks, in their order.
EntriesAt(entries, ks) ==
    LET nth(n) == CHOOSE k \in ks : Cardinality({j \in ks : j < k}) = n - 1
    IN  [n \in 1..Cardinality(ks) |-> entries[nth(n)]]

\* The entries of a list of n, which is empty if one of them fails; entries
\* without a name are left out.
Entries(n, Fails(_), Entry(_)) ==
    IF \E i \in 1..n : Fails(i) THEN <<>>
    ELSE EntriesAt([i \in 1..n |-> Entry(i)], {i \in 1..n : Entry(i).name # Empty})

-----------------------------------------------------------------------------
(* Lists.  Every caller takes a list that fails for an empty one.           *)

\* The two words at the start of a list.
EntSize(m, list) == m.u32[list]
Count(m, list, most) == Min({m.u32[list + 4], most})
HeaderReadable(m, list) == EntSize(m, list) # Failed /\ m.u32[list + 4] # Failed

\* Bits 31 and 30 of the entry size of a method list.
IsRelative(entsize) == entsize \div 2^15 = 1
IsDirect(entsize) == (entsize \div 2^14) % 2 = 1

PointerMethods(m, list) ==
    LET size == EntSize(m, list) - (EntSize(m, list) % 4)
        at(i) == list + 8 + (i - 1) * (IF size = 0 THEN 24 ELSE size)
        method(i) == [name  |-> OrEmpty(m.string[OrZero(m.pointer[at(i)])]),
                      types |-> OrEmpty(m.string[OrZero(m.pointer[at(i) + 8])]),
                      imp   |-> OrZero(m.pointer[at(i) + 16])]
    IN  Entries(Count(m, list, MaxMethods),
                LAMBDA i : ~AllReadable(m, {at(i), at(i) + 8, at(i) + 16}), method)

\* Entries of three offsets, each from its own place; the first leads to the
\* selector or to the pointer to it.
RelativeMethods(m, list) ==
    LET at(i) == list + 8 + (i - 1) * 12
        target(va) == va + m.i32[va]
        direct == IsDirect(EntSize(m, list))
        unread(i) == \/ \E k \in {0, 4, 8} : m.u32[at(i) + k] = Failed
                     \/ ~direct /\ m.pointer[target(at(i))] = Failed
        method(i) == [name  |-> OrEmpty(IF direct THEN m.string[target(at(i))]
                                        ELSE NameAt(m, target(at(i)))),
                      types |-> OrEmpty(m.string[target(at(i) + 4)]),
                      imp   |-> IF m.u32[at(i) + 8] = 0 THEN 0 ELSE target(at(i) + 8)]
    IN  Entries(Count(m, list, MaxMethods), unread, method)

MethodList(m, list) ==
    IF ~HeaderReadable(m, list) THEN <<>>
    ELSE IF IsRelative(EntSize(m, list)) THEN RelativeMethods(m, list)
    ELSE PointerMethods(m, list)

OrNought(n) == IF n = Failed THEN 0 ELSE n

IvarList(m, list) ==
    LET at(i) == list + 8 + (i - 1) * (IF EntSize(m, list) = 0 THEN 32 ELSE EntSize(m, list))
        offset(p) == IF p = 0 THEN 0 ELSE OrNought(m.u32[p])
        ivar(i) == [name      |-> OrEmpty(m.string[OrZero(m.pointer[at(i) + 8])]),
                    types     |-> OrEmpty(m.string[OrZero(m.pointer[at(i) + 16])]),
                    offset    |-> offset(OrZero(m.pointer[at(i)])),
                    alignment |-> OrNought(m.u32[at(i) + 24]),
                    size      |-> OrNought(m.u32[at(i) + 28])]
    IN  IF ~HeaderReadable(m, list) THEN <<>>
        ELSE Entries(Count(m, list, MaxIvars),
                     LAMBDA i : ~AllReadable(m, {at(i), at(i) + 8, at(i) + 16}), ivar)

PropertyList(m, list) ==
    LET at(i) == list + 8 + (i - 1) * (IF EntSize(m, list) = 0 THEN 16 ELSE EntSize(m, list))
        property(i) == [name       |-> OrEmpty(m.string[OrZero(m.pointer[at(i)])]),
                        attributes |-> OrEmpty(m.string[OrZero(m.pointer[at(i) + 8])])]
    IN  IF ~HeaderReadable(m, list) THEN <<>>
        ELSE Entries(Count(m, list, MaxProperties),
                     LAMBDA i : ~AllReadable(m, {at(i), at(i) + 8}), property)

\* The names of the protocols that can be followed; the count has 8 bytes.
ProtocolNames(m, list) ==
    LET n == Min({m.u64[list], MaxProtocols})
        protocol(i) == OrZero(m.pointer[list + 8 + (i - 1) * 8])
        named == SelectSeq([i \in 1..n |-> i],
                           LAMBDA i : protocol(i) # 0 /\ NameAt(m, protocol(i) + 8) # Nothing)
    IN  IF \/ m.u64[list] = Failed
           \/ \E i \in 1..n : \/ protocol(i) = Failed
                              \/ protocol(i) # 0 /\ m.pointer[protocol(i) + 8] = Failed
        THEN <<>>
        ELSE [k \in DOMAIN named |-> NameAt(m, protocol(named[k]) + 8)]

-----------------------------------------------------------------------------
(* Classes, categories and protocols.                                       *)

\* A faulty variant: the tag in the low bits of the data pointer stays.
ClassRoTagged(m, class) ==
    LET data == OrZero(m.pointer[class + 32])
        rw == m.pointer[data + 8]
    IN  IF data = Failed THEN Failed
        ELSE IF data = 0 THEN 0
        ELSE IF NameAt(m, data + 24) # Nothing THEN data
        ELSE IF rw = Failed THEN Failed
        ELSE OrZero(rw)

\* class_ro_ptr: what the data of a class leads to is its class_ro_t if there is
\* a string where that has the name, and else a class_rw_t that leads to it.
ClassRo(m, class) ==
    LET data == ClearTag(OrZero(m.pointer[class + 32]))
        rw == m.pointer[data + 8]
    IN  IF m.pointer[class + 32] = Failed THEN Failed
        ELSE IF data = 0 THEN 0
        ELSE IF NameAt(m, data + 24) # Nothing THEN data
        ELSE IF rw = Failed THEN Failed
        ELSE ClearTag(OrZero(rw))

ClassFails(m, class) ==
    LET ro == ClassRo(m, class)
    IN  \/ ro = Failed
        \/ ~AllReadable(m, {class, class + 8} \cup {ro + k : k \in {24, 32, 40, 48, 64}})

\* The class that the pointer at va leads to, in the image or as a symbol.
ClassNameThrough(m, va) ==
    LET class == m.pointer[va]
    IN  IF class = Nothing
        THEN IF m.symbol[va] = {} THEN Nothing
             ELSE LET symbol == CHOOSE s \in m.symbol[va] : TRUE IN Stripped(symbol, {"class"})
        ELSE IF class = 0 \/ ClassRo(m, class) = Failed THEN Nothing
        ELSE NameAt(m, ClassRo(m, class) + 24)

Class(m, class) ==
    LET ro == ClassRo(m, class)
        meta == m.pointer[class]
        name == m.string[OrZero(m.pointer[ro + 24])]
    IN  [name         |-> IF name = Nothing THEN Placeholder(ro) ELSE name,
         va           |-> class,
         superclass   |-> ClassNameThrough(m, class + 8),
         start        |-> OrNought(m.u32[ro + 4]),
         size         |-> OrNought(m.u32[ro + 8]),
         methods      |-> Follow(m, ro + 32, LAMBDA p : MethodList(m, p)),
         classMethods |->
            IF meta \in {0, Nothing} \/ ClassRo(m, meta) = Failed THEN <<>>
            ELSE IF m.pointer[ClassRo(m, meta) + 32] = Failed THEN <<>>
            ELSE Follow(m, ClassRo(m, meta) + 32, LAMBDA p : MethodList(m, p)),
         ivars        |-> Follow(m, ro + 48, LAMBDA p : IvarList(m, p)),
         properties   |-> Follow(m, ro + 64, LAMBDA p : PropertyList(m, p)),
         protocols    |-> Follow(m, ro + 40, LAMBDA p : ProtocolNames(m, p))]

CategoryFails(m, cat) == ~AllReadable(m, {cat + k : k \in {0, 8, 16, 24, 32, 40}})

Category(m, cat) ==
    LET class == ClassNameThrough(m, cat + 8)
    IN  [name         |-> OrEmpty(m.string[OrZero(m.pointer[cat])]),
         className    |-> IF class = Nothing THEN Question ELSE class,
         methods      |-> Follow(m, cat + 16, LAMBDA p : MethodList(m, p)),
         classMethods |-> Follow(m, cat + 24, LAMBDA p : MethodList(m, p)),
         properties   |-> Follow(m, cat + 40, LAMBDA p : PropertyList(m, p)),
         protocols    |-> Follow(m, cat + 32, LAMBDA p : ProtocolNames(m, p))]

ProtocolFails(m, p) == ~AllReadable(m, {p + k : k \in {8, 16, 24, 32, 40, 48, 56}})

Protocol(m, p) ==
    LET methods(k) == Follow(m, p + k, LAMBDA list : MethodList(m, list))
    IN  [name                 |-> OrEmpty(m.string[OrZero(m.pointer[p + 8])]),
         protocols            |-> Follow(m, p + 16, LAMBDA list : ProtocolNames(m, list)),
         methods              |-> methods(24),
         classMethods         |-> methods(32),
         optionalMethods      |-> methods(40),
         optionalClassMethods |-> methods(48),
         properties           |-> Follow(m, p + 56, LAMBDA list : PropertyList(m, list))]

-----------------------------------------------------------------------------
(* The three lists of an image, one slot at a time.                         *)

VARIABLES
    image,          \* the image that is read
    stage,          \* the list that is read; "read" or "failed" at the end
    slot,           \* index into it, from 1
    meta            \* what was found

metaVars == <<image, stage, slot, meta>>

NoMeta == [classes |-> <<>>, categories |-> <<>>, protocols |-> <<>>]

SectionOf == [classes    |-> "__objc_classlist",
              categories |-> "__objc_catlist",
              protocols  |-> "__objc_protolist"]

After == [classes |-> "categories", categories |-> "protocols", protocols |-> "read"]

\* The section is looked up in every segment, also once it was found.
SectionFails(f, name) ==
    \/ \E k \in DOMAIN PointerSegments : LookupFails(f, PointerSegments[k], name)
    \/ \E s \in Range(FirstSection(f, name)) : ~SectionData(f, s)

ListFails(l) ==
    \/ SectionFails(image, SectionOf[l])
    \/ l = "classes" /\ FixupsFail(image)

InList(l) == stage = l /\ ~ListFails(l)

TheSlots(l) == IF FirstSection(image, SectionOf[l]) = <<>> THEN 0
               ELSE Slots(Head(FirstSection(image, SectionOf[l])))

Va(l) == SlotVa(Head(FirstSection(image, SectionOf[l])), slot)

InSlot(l) == InList(l) /\ slot <= TheSlots(l) /\ Resolve(image, Va(l)) # Failed

\* A faulty variant: slots are counted from 0 and addressed from 1.
StartsBefore(f) ==
    /\ image = f
    /\ stage = "classes"
    /\ slot = 0
    /\ meta = NoMeta

StartsReading(f) ==
    /\ image = f
    /\ stage = "classes"
    /\ slot = 1
    /\ meta = NoMeta

\* A slot of the class list that leads nowhere is taken for an address as it is.
ClassSlot ==
    \E m \in {Memory(image)} :
        /\ InSlot("classes")
        /\ LET target == OrZero(Resolve(image, Va("classes")))
               class == IF target # 0 THEN target
                        ELSE Stored(image, Head(FirstSection(image, SectionOf.classes)).offset + 8 * (slot - 1))
           IN  meta' = IF class = 0 \/ ClassFails(m, class) THEN meta
                       ELSE [meta EXCEPT !.classes = Append(@, Class(m, class))]
        /\ slot' = slot + 1
        /\ UNCHANGED <<image, stage>>

CategorySlot ==
    \E m \in {Memory(image)} :
        /\ InSlot("categories")
        /\ LET cat == OrZero(Resolve(image, Va("categories")))
           IN  meta' = IF cat = 0 \/ CategoryFails(m, cat) THEN meta
                       ELSE [meta EXCEPT !.categories = Append(@, Category(m, cat))]
        /\ slot' = slot + 1
        /\ UNCHANGED <<image, stage>>

\* Of protocols with one name the first is kept.
ProtocolSlot ==
    \E m \in {Memory(image)} :
        /\ InSlot("protocols")
        /\ LET p == OrZero(Resolve(image, Va("protocols")))
               known == {q.name : q \in Range(meta.protocols)}
           IN  meta' = IF p = 0 \/ ProtocolFails(m, p) \/ Protocol(m, p).name \in known THEN meta
                       ELSE [meta EXCEPT !.protocols = Append(@, Protocol(m, p))]
        /\ slot' = slot + 1
        /\ UNCHANGED <<image, stage>>

ListEnds ==
    /\ \E l \in DOMAIN After :
         /\ InList(l)
         /\ slot > TheSlots(l)
         /\ stage' = After[l]
    /\ slot' = 1
    /\ UNCHANGED <<image, meta>>

Cut(l) ==
    /\ stage = l
    /\ \/ ListFails(l)
       \/ slot <= TheSlots(l) /\ Resolve(image, Va(l)) = Failed

\* An error in the class list fails the image; one in another list loses
\* that list.
ClassesFail ==
    /\ Cut("classes")
    /\ stage' = "failed"
    /\ UNCHANGED <<image, slot, meta>>

ListLost ==
    /\ \E l \in {"categories", "protocols"} :
         /\ Cut(l)
         /\ stage' = After[l]
         /\ meta' = [meta EXCEPT ![l] = <<>>]
    /\ slot' = 1
    /\ UNCHANGED image

ParseStep == ClassSlot \/ CategorySlot \/ ProtocolSlot \/ ListEnds \/ ClassesFail \/ ListLost
=============================================================================
