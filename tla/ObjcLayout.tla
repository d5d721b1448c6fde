----------------------------- MODULE ObjcLayout -----------------------------
(***************************************************************************)
(* What a compiler and a linker make of an Objective-C source: an image     *)
(* with its metadata laid out as the runtime has it, in which one thing may *)
(* be damaged; and what the metadata of that image should say.  It is the   *)
(* reference for ObjcMetadata, which reads such images.                     *)
(*                                                                          *)
(* A source is a record of the sequences classes, categories and protocols, *)
(* the form of its method lists, and whether pointers are chained, classes  *)
(* carry the Swift tag and lead to a class_rw_t first.  Superclasses and    *)
(* classes of categories are classes of the source by number, or symbols;   *)
(* only a chained image tells what a symbol is.                             *)
(***************************************************************************)
EXTENDS ObjcRefs

CONSTANTS
    Types,          \* the type string of every method and ivar
    MaxName         \* bound: the greatest rank of a name or selector

ASSUME LayoutAssumption == MaxName \in Nat

Nowhere == 30000    \* an address that no segment has
TextVa == 1000
DataVa == 4000      \* mapped from offset DataVa - Slide
Slide == 3000
BlockSize == 528

StringVa(rank) == TextVa + 16 * rank
SelrefVa(rank) == DataVa + 512 + 8 * rank
SlotOf == [classes |-> DataVa, categories |-> DataVa + 64, protocols |-> DataVa + 128]
ClassrefsVa == DataVa + 192
SuperrefsVa == DataVa + 256
ProtorefsVa == DataVa + 320

\* Entities are numbered through: classes, then categories, then protocols.
Number(src, kind, k) ==
    CASE kind = "classes"    -> k
      [] kind = "categories" -> Len(src.classes) + k
      [] kind = "protocols"  -> Len(src.classes) + Len(src.categories) + k

Total(src) == Len(src.classes) + Len(src.categories) + Len(src.protocols)

BlockVa(src, kind, k) == DataVa + 1024 + BlockSize * (Number(src, kind, k) - 1)

\* Where the parts of a block are; ro of a class, and of its metaclass.
Ro == 80
MetaRo == 152
Parts == [methods |-> 232, classMethods |-> 288, ivars |-> 344, offsets |-> 416,
          properties |-> 424, protocols |-> 464, rw |-> 488,
          optionalMethods |-> 344, optionalClassMethods |-> 400]

-----------------------------------------------------------------------------
(* Words: what is stored at an address.                                     *)

Num(n) == [kind |-> "num", n |-> n]
To(va) == IF va = 0 THEN Num(0) ELSE [kind |-> "pointer", va |-> va]
Symbol(s) == [kind |-> "symbol", symbol |-> s]
String(rank) == To(StringVa(rank))

ClassSymbol(base) == [prefix |-> "class", base |-> base, whole |-> base + 100]

Struct(va, words) ==
    [o \in {va + 8 * (k - 1) : k \in DOMAIN words} |-> words[((o - va) \div 8) + 1]]

Together(structs) == FoldLeft(LAMBDA all, s : s @@ all, <<>>, structs)

\* The part of a block that a list is in, or null if it has no entries.
PartTo(block, part, entries) == To(IF entries = <<>> THEN 0 ELSE block + Parts[part])

Header(va, entsize, n) == (va :> Num(entsize)) @@ ((va + 4) :> Num(n))

Imp(va, i) == va + 8 * i

Offset(from, to) == Num((to - from) % 2^16)

Methods(form, va, sels) ==
    LET word(i) == va + 8 + 12 * (i - 1)
        sel(i) == IF form = "relative" THEN SelrefVa(sels[i]) ELSE StringVa(sels[i])
    IN  IF form = "pointer"
        THEN Together([i \in DOMAIN sels |->
                Struct(va + 8 + 24 * (i - 1), <<String(sels[i]), String(Types), Num(Imp(va, i))>>)])
             @@ Header(va, 24, Len(sels))
        ELSE Together([i \in DOMAIN sels |->
                (word(i) :> Offset(word(i), sel(i)))
                @@ ((word(i) + 4) :> Offset(word(i) + 4, StringVa(Types)))
                @@ ((word(i) + 8) :> Offset(word(i) + 8, Imp(va, i)))])
             @@ Header(va, 2^15 + (IF form = "direct" THEN 2^14 ELSE 0) + 12, Len(sels))

Ivars(block, names) ==
    LET va == block + Parts.ivars
    IN  Together([i \in DOMAIN names |->
            Struct(va + 8 + 32 * (i - 1),
                   <<To(block + Parts.offsets), String(names[i]), String(Types)>>)
            @@ ((va + 8 + 32 * (i - 1) + 24) :> Num(3)) @@ ((va + 8 + 32 * (i - 1) + 28) :> Num(8))])
        @@ Header(va, 32, Len(names)) @@ ((block + Parts.offsets) :> Num(16))

Properties(block, names) ==
    LET va == block + Parts.properties
    IN  Together([i \in DOMAIN names |->
            Struct(va + 8 + 16 * (i - 1), <<String(names[i]), String(Types)>>)])
        @@ Header(va, 16, Len(names))

Adoptions(src, block, protocols) ==
    Struct(block + Parts.protocols,
           <<Num(Len(protocols))>> \o [i \in DOMAIN protocols |->
                                        To(BlockVa(src, "protocols", protocols[i]))])

\* A class or a symbol: the class a category or a class is of.
ClassWord(src, of) ==
    CASE of = 0          -> Num(0)
      [] of \in 1..Len(src.classes) -> To(BlockVa(src, "classes", of))
      [] OTHER           -> Symbol({ClassSymbol(of)})

ClassStructs(src, k) ==
    LET c == src.classes[k]
        b == BlockVa(src, "classes", k)
        data == IF src.rw THEN b + Parts.rw ELSE b + Ro
        tag == IF src.tagged THEN 1 ELSE 0
    IN  <<Struct(b, <<To(b + 40), ClassWord(src, c.super), Num(0), Num(0), To(data + tag)>>),
          Struct(b + 40, <<Num(0), Num(0), Num(0), Num(0), To(b + MetaRo)>>),
          Struct(b + Ro, <<Num(0), Num(24), Num(0), String(c.name),
                           PartTo(b, "methods", c.methods), PartTo(b, "protocols", c.protocols),
                           PartTo(b, "ivars", c.ivars), Num(0),
                           PartTo(b, "properties", c.properties)>>),
          ((b + Ro + 4) :> Num(8)),
          Struct(b + MetaRo, <<Num(1), Num(40), Num(0), String(c.name),
                               PartTo(b, "classMethods", c.classMethods), Num(0), Num(0), Num(0),
                               Num(0)>>),
          IF src.rw THEN Struct(b + Parts.rw, <<Num(0), To(b + Ro), Num(0), Num(0)>>) ELSE <<>>,
          Methods(src.form, b + Parts.methods, c.methods),
          Methods(src.form, b + Parts.classMethods, c.classMethods),
          Ivars(b, c.ivars), Properties(b, c.properties), Adoptions(src, b, c.protocols)>>

CategoryStructs(src, k) ==
    LET c == src.categories[k]
        b == BlockVa(src, "categories", k)
    IN  <<Struct(b, <<String(c.name), ClassWord(src, c.class), PartTo(b, "methods", c.methods),
                      PartTo(b, "classMethods", c.classMethods), PartTo(b, "protocols", c.protocols),
                      PartTo(b, "properties", c.properties)>>),
          Methods(src.form, b + Parts.methods, c.methods),
          Methods(src.form, b + Parts.classMethods, c.classMethods),
          Properties(b, c.properties), Adoptions(src, b, c.protocols)>>

ProtocolStructs(src, k) ==
    LET p == src.protocols[k]
        b == BlockVa(src, "protocols", k)
        sels == {"methods", "classMethods", "optionalMethods", "optionalClassMethods"}
    IN  <<Struct(b, <<Num(0), String(p.name), PartTo(b, "protocols", p.protocols),
                      PartTo(b, "methods", p.methods), PartTo(b, "classMethods", p.classMethods),
                      PartTo(b, "optionalMethods", p.optionalMethods),
                      PartTo(b, "optionalClassMethods", p.optionalClassMethods),
                      PartTo(b, "properties", p.properties)>>),
          Properties(b, p.properties), Adoptions(src, b, p.protocols)>>
        \o [i \in 1..4 |-> LET part == SetToSeq(sels)[i]
                           IN  Methods("pointer", b + Parts[part], p[part])]

Words(src) ==
    LET list(kind, va) == Struct(va, [k \in DOMAIN src[kind] |-> To(BlockVa(src, kind, k))])
        supers == SelectSeq(src.classes, LAMBDA c : c.super # 0)
    IN  Together(
            <<list("classes", SlotOf.classes), list("categories", SlotOf.categories),
              list("protocols", SlotOf.protocols),
              list("classes", ClassrefsVa), list("protocols", ProtorefsVa),
              Struct(SuperrefsVa, [k \in DOMAIN supers |-> ClassWord(src, supers[k].super)]),
              Struct(SelrefVa(0), [k \in 1..(MaxName + 1) |-> String(k - 1)])>>
            \o FlattenSeq([k \in DOMAIN src.classes |-> ClassStructs(src, k)])
            \o FlattenSeq([k \in DOMAIN src.categories |-> CategoryStructs(src, k)])
            \o FlattenSeq([k \in DOMAIN src.protocols |-> ProtocolStructs(src, k)]))

-----------------------------------------------------------------------------
(* The image, undamaged or with one fault.                                  *)

\* A fault: a word that is another one, a string that is not UTF-8, a load command
\* that is cut short, or a section that is said to be where nothing is.
NoFault == [kind |-> "none"]
WordFault(va, word) == [kind |-> "word", va |-> va, word |-> word]
TextFault(rank) == [kind |-> "text", rank |-> rank]
CommandFault(k, cut) == [kind |-> "command", at |-> k, cut |-> cut]
SectionFault(name, field) == [kind |-> "section", name |-> name, field |-> field]

Section(seg, name, va, size) ==
    [seg |-> seg, name |-> name, addr |-> va, offset |-> va - Slide, size |-> size]

Commands(src) ==
    LET slots(kind) == 8 * Len(src[kind])
    IN  <<[cmd |-> "segment", name |-> "__TEXT", vmaddr |-> TextVa, fileoff |-> 0,
           filesize |-> DataVa - Slide, sections |-> <<>>, cut |-> "none"],
          [cmd |-> "segment", name |-> "__DATA_CONST", vmaddr |-> DataVa, fileoff |-> DataVa - Slide,
           filesize |-> 1024 + BlockSize * Total(src), cut |-> "none",
           sections |-> <<Section("__DATA_CONST", "__objc_classlist", SlotOf.classes, slots("classes")),
                          Section("__DATA_CONST", "__objc_catlist", SlotOf.categories, slots("categories")),
                          Section("__DATA", "__objc_selrefs", SelrefVa(0), 8 * (MaxName + 1)),
                          Section("__DATA", "__objc_superrefs", SuperrefsVa,
                                  8 * Cardinality({k \in DOMAIN src.classes : src.classes[k].super # 0}))>>],
          [cmd |-> "segment", name |-> "__DATA", vmaddr |-> Nowhere, fileoff |-> 0, filesize |-> 0,
           cut |-> "none",
           sections |-> <<Section("__DATA", "__objc_protolist", SlotOf.protocols, slots("protocols")),
                          Section("__DATA", "__objc_classrefs", ClassrefsVa, slots("classes")),
                          Section("__DATA", "__objc_protorefs", ProtorefsVa, slots("protocols"))>>],
          [cmd |-> "chained_fixups", dataoff |-> 0, datasize |-> 0, cut |-> "none"]>>

Damage(words, fault) == IF fault.kind = "word" THEN (fault.va :> fault.word) @@ words ELSE words

\* The image of a source of which words are left.
Image(src, words, fault) ==
    LET of(kind) == {va \in DOMAIN words : words[va].kind = kind}
        fixed == IF src.chained THEN of("symbol") \cup of("pointer") ELSE {}
        raw(w) == CASE w.kind = "num" -> w.n
                    [] w.kind # "num" /\ src.chained -> Nowhere
                    [] w.kind = "pointer" /\ ~src.chained -> w.va
                    [] w.kind = "symbol" /\ ~src.chained -> 0
        lost == IF fault.kind = "text" THEN {fault.rank} ELSE {}
        moved(s) == IF fault.kind = "section" /\ fault.name = s.name
                    THEN [s EXCEPT ![fault.field] = Nowhere] ELSE s
        cut(k, c) == IF fault.kind = "command" /\ fault.at = k THEN [c EXCEPT !.cut = fault.cut]
                     ELSE IF c.cmd # "segment" THEN c
                     ELSE [c EXCEPT !.sections = [i \in DOMAIN c.sections |-> moved(c.sections[i])]]
    IN  [commands |-> [k \in 1..(IF src.chained THEN 4 ELSE 3) |-> cut(k, Commands(src)[k])],
         fit      |-> TRUE,
         size     |-> DataVa - Slide + 1024 + BlockSize * Total(src),
         num      |-> [o \in {va - Slide : va \in DOMAIN words} |-> raw(words[o + Slide])]
                      @@ [o \in {StringVa(r) - TextVa : r \in lost} |-> 1],
         text     |-> [o \in {StringVa(r) - TextVa : r \in 1..MaxName \ lost} |-> o \div 16],
         fixups   |-> [o \in {va - Slide : va \in fixed} |->
                        LET w == words[o + Slide]
                        IN  IF w.kind = "pointer" THEN [kind |-> "rebase", va |-> w.va]
                            ELSE [kind |-> "bind", symbol |-> w.symbol]],
         source   |-> src,
         fault    |-> fault]

\* The images of a source, one for each fault.
Images(src, faults) ==
    {Image(src, d.words, d.fault) :
        d \in {[words |-> Damage(words, fault), fault |-> fault] : words \in {Words(src)}, fault \in faults}}

-----------------------------------------------------------------------------
(* What should be read of it.                                               *)

ListOf(block, form, part, sels) ==
    [i \in DOMAIN sels |-> [name |-> sels[i], types |-> Types, imp |-> Imp(block + Parts[part], i)]]

NamesOf(src, kind, numbers) == [i \in DOMAIN numbers |-> src[kind][numbers[i]].name]

PropertiesOf(names) == [i \in DOMAIN names |-> [name |-> names[i], attributes |-> Types]]

\* The name of a class or symbol, where it can be told.
Told(src, of, otherwise) ==
    CASE of \in 1..Len(src.classes)                 -> src.classes[of].name
      [] of > Len(src.classes) /\ src.chained        -> of
      [] of = 0 \/ (of > Len(src.classes) /\ ~src.chained) -> otherwise

Expected(src, kind, k) ==
    LET e == src[kind][k]
        b == BlockVa(src, kind, k)
        list(part) == ListOf(b, src.form, part, e[part])
        common == [name         |-> e.name,
                   methods      |-> list("methods"),
                   classMethods |-> list("classMethods"),
                   properties   |-> PropertiesOf(e.properties),
                   protocols    |-> NamesOf(src, "protocols", e.protocols)]
    IN  CASE kind = "classes" ->
               common @@ [va         |-> b,
                          superclass |-> Told(src, e.super, Nothing),
                          start      |-> 8,
                          size       |-> 24,
                          ivars      |-> [i \in DOMAIN e.ivars |->
                                           [name |-> e.ivars[i], types |-> Types, offset |-> 16,
                                            alignment |-> 3, size |-> 8]]]
          [] kind = "categories" -> common @@ [className |-> Told(src, e.class, Question)]
          [] kind = "protocols" ->
               common @@ [optionalMethods      |-> list("optionalMethods"),
                          optionalClassMethods |-> list("optionalClassMethods")]

-----------------------------------------------------------------------------
(* What a fault may touch: the words and strings that an entity is read of. *)

Of(src, kind, k) == IF kind = "classes" THEN src.classes[k].super
                    ELSE IF kind = "categories" THEN src.categories[k].class ELSE 0

Selectors(e) ==
    Range(e.methods) \cup Range(e.classMethods)
        \cup (IF "optionalMethods" \in DOMAIN e
              THEN Range(e.optionalMethods) \cup Range(e.optionalClassMethods) ELSE {})

OwnNames(src, kind, k) ==
    LET e == src[kind][k]
    IN  Selectors(e) \cup {e.name, Types} \cup Range(e.properties)
            \cup Range(NamesOf(src, "protocols", e.protocols))
            \cup (IF kind = "classes" THEN Range(e.ivars) ELSE {})
            \cup (IF Of(src, kind, k) \in DOMAIN src.classes
                  THEN {src.classes[Of(src, kind, k)].name} ELSE {})

OwnWords(src, kind, k) ==
    LET e == src[kind][k]
        b == BlockVa(src, kind, k)
        class == BlockVa(src, "classes", Of(src, kind, k))
    IN  {SlotOf[kind] + 8 * (k - 1)} \cup b..(b + BlockSize - 1)
            \cup {SelrefVa(sel) : sel \in Selectors(e)}
            \cup {BlockVa(src, "protocols", p) + 8 : p \in Range(e.protocols)}
            \cup (IF Of(src, kind, k) \in DOMAIN src.classes
                  THEN {class + 32, class + Ro + 24, class + Parts.rw + 8} ELSE {})

\* Of protocols with one name only the first is to be listed.
Spared(src, kind, fault) ==
    LET hit(k) == CASE fault.kind = "word" -> fault.va \in OwnWords(src, kind, k)
                    [] fault.kind = "text" -> fault.rank \in OwnNames(src, kind, k)
                    [] fault.kind \in {"none", "command", "section"} -> FALSE
        known(k) == kind = "protocols" /\ \E j \in 1..(k - 1) : src[kind][j].name = src[kind][k].name
    IN  SelectSeq([k \in DOMAIN src[kind] |-> k], LAMBDA k : ~hit(k) /\ ~known(k))

SparedEntries(src, kind, fault) ==
    LET spared == Spared(src, kind, fault)
    IN  [i \in DOMAIN spared |-> Expected(src, kind, spared[i])]

\* What one damaged word or string loses is what it belongs to: every class,
\* category and protocol that does not touch it is listed as the source has it, in
\* the order of its list (of protocols with one name the first); damage in the load
\* commands loses whole lists or the image, but never part of a list (parse_class and
\* the `if let Ok` around it, objc.rs:130, against the `?` of the lookups).
OneFaultLosesOnlyItsOwn ==
    LET src == image.source
        inCommands == image.fault.kind \in {"command", "section"}
        listed(kind) == LET entries == SparedEntries(src, kind, image.fault)
                        IN  SelectSeq(meta[kind], LAMBDA e : e \in Range(entries)) = entries
    IN  /\ stage = "failed" => inCommands
        /\ stage = "read" =>
             \A kind \in DOMAIN After :
                 \/ listed(kind) /\ Len(meta[kind]) <= Len(src[kind])
                 \/ inCommands /\ meta[kind] = <<>>
=============================================================================
