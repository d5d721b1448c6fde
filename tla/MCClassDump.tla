---------------------------- MODULE MCClassDump -----------------------------
(***************************************************************************)
(* Class-dump on images of three small sources: each source with every      *)
(* single fault under plain options, and undamaged with the options.        *)
(***************************************************************************)
EXTENDS ClassDump, ObjcLayout

\* Ranks of names: 1 to 9 of classes and protocols, 10 to 14 of categories, from
\* 15 of selectors, 20 to 25 of ivars and properties.
MCQuestion == 60
MCNSObject == 30
MCTypes == 26
MCMaxName == 26
MCPlaceholder(ro) == 100 + ro
MCPlaceholderOf(kind, target) ==
    target + (CASE kind = "class" -> 40000 [] kind = "protocol" -> 80000 [] kind = "sel" -> 120000)

\* The names 1 and 9 become the same file name; so do 10 and 14.
MCSanitized(name) == IF name = 9 THEN 1 ELSE IF name = 14 THEN 10 ELSE name

C(name, super, methods, classMethods, ivars, properties, protocols) ==
    [name |-> name, super |-> super, methods |-> methods, classMethods |-> classMethods,
     ivars |-> ivars, properties |-> properties, protocols |-> protocols]

G(name, class, methods, classMethods, protocols) ==
    [name |-> name, class |-> class, methods |-> methods, classMethods |-> classMethods,
     properties |-> <<24>>, protocols |-> protocols]

P(name, protocols, methods, classMethods, optional) ==
    [name |-> name, protocols |-> protocols, methods |-> methods, classMethods |-> classMethods,
     optionalMethods |-> optional, optionalClassMethods |-> <<>>, properties |-> <<25>>]

Source(classes, categories, protocols, form, chained, tagged, rw) ==
    [classes |-> classes, categories |-> categories, protocols |-> protocols,
     form |-> form, chained |-> chained, tagged |-> tagged, rw |-> rw]

Few == Source(<<C(2, 30, <<16, 15>>, <<17>>, <<20>>, <<22>>, <<1>>), C(1, 1, <<15>>, <<>>, <<>>, <<>>, <<>>)>>,
              <<G(10, 1, <<16>>, <<>>, <<1>>), G(11, 31, <<>>, <<15>>, <<>>)>>,
              <<P(3, <<>>, <<15>>, <<16>>, <<17>>), P(4, <<1>>, <<>>, <<>>, <<>>)>>,
              "relative", TRUE, FALSE, FALSE)

Plain == [Few EXCEPT !.form = "pointer", !.chained = FALSE, !.tagged = TRUE]

Direct == [Few EXCEPT !.form = "direct", !.rw = TRUE]

\* Names that clash, and an older state of Few.
Clashing == Source(<<C(1, 0, <<15>>, <<>>, <<>>, <<>>, <<>>), C(9, 1, <<16>>, <<>>, <<>>, <<>>, <<>>),
                     C(1, 0, <<17>>, <<>>, <<>>, <<>>, <<>>), C(5, 0, <<>>, <<18>>, <<>>, <<>>, <<>>)>>,
                   <<G(10, 1, <<16>>, <<>>, <<>>), G(14, 1, <<15>>, <<>>, <<>>), G(10, 4, <<15>>, <<>>, <<>>)>>,
                   <<P(5, <<>>, <<15>>, <<>>, <<>>), P(5, <<>>, <<16>>, <<>>, <<>>)>>,
                   "direct", TRUE, TRUE, FALSE)

Older == [Few EXCEPT !.classes = <<C(2, 30, <<15>>, <<17, 18>>, <<21>>, <<22>>, <<>>),
                                   C(6, 1, <<15>>, <<>>, <<>>, <<>>, <<>>),
                                   C(1, 1, <<>>, <<15>>, <<>>, <<>>, <<>>)>>]

\* The images of undamaged sources.
Clean(sources) == UNION {Images(src, {NoFault}) : src \in sources}

\* Each word damaged by the values, each string lost, and each command cut short
\* or a section of it moved.
Faults(src, values) ==
    {WordFault(va, Num(n)) : va \in DOMAIN Words(src), n \in values}
        \cup {TextFault(rank) : rank \in 1..MaxName}
        \cup {CommandFault(k, cut) : k \in 1..4, cut \in Cuts}
        \cup {SectionFault(SectionOf[l], field) : l \in DOMAIN After, field \in {"addr", "offset"}}

Damaged(source, values) ==
    UNION {Images(src, Faults(src, values)) : src \in {source}}

Default(f) ==
    [image |-> f, frameworks |-> <<>>, diff |-> NoDiff, refs |-> FALSE, headers |-> FALSE,
     class |-> NoPattern, proto |-> NoPattern, cat |-> NoPattern, find |-> NoPattern,
     inheritance |-> FALSE, sortName |-> FALSE, sortMethods |-> FALSE]

Patterns == {NoPattern, {1, 3, 10}, {2, 5}}

Selections ==
    {[Default(f) EXCEPT !.class = c, !.proto = p, !.cat = g, !.find = s] :
        f \in Clean({Few, Clashing}), c \in Patterns, p \in {NoPattern, {3, 5}},
        g \in Patterns, s \in {NoPattern, {15}}}

\* No framework, one that can be read, and one that cannot.
Frameworks == {<<>>} \cup {<<f>> : f \in Clean({Older}) \cup Images(Few, {CommandFault(1, "body")})}

Orders ==
    {[Default(f) EXCEPT !.inheritance = i, !.sortName = n, !.sortMethods = m, !.frameworks = fs] :
        f \in Clean({Few, Clashing}), i \in BOOLEAN, n \in BOOLEAN, m \in BOOLEAN,
        fs \in Frameworks}

Headers ==
    {[Default(f) EXCEPT !.headers = TRUE, !.frameworks = fs, !.find = s] :
        f \in Clean({Few, Clashing}), fs \in Frameworks, s \in {NoPattern, {15, 16}}}

Diffs == {[Default(f) EXCEPT !.diff = g] :
            f \in Clean({Few, Plain, Clashing, Older}), g \in Clean({Few, Clashing, Older})}

MCArguments ==
    {[Default(f) EXCEPT !.refs = TRUE] :
        f \in Damaged(Few, {0, Nowhere}) \cup Damaged(Plain, {0}) \cup Damaged(Direct, {0})}
        \cup Selections \cup Orders \cup Headers \cup Diffs

MCOldFiles == {<<1>> :> [kind |-> "old"]}

-----------------------------------------------------------------------------
(* Properties of --refs, which say what the source of the image is.         *)

\* What --refs prints with a class that is listed, reference by reference.
OfListed(Holds(_, _)) ==
    \A p \in Range(printed) : p.what = "refs" /\ metas # <<>> =>
        \A r \in Range(p.said.classRefs \o p.said.superRefs), c \in Range(metas[1].classes) :
            r.target = c.va => Holds(r, c)

\* Where the name of a class is, is decided once for the list of classes (by the
\* string that its data leads to: class_ro_ptr, objc.rs:191) and once for the
\* references (by the pointer to it alone: class_name_at, refs.rs:233).  As long as
\* data leads to a class_ro_t both name a class the same, whatever is damaged; of
\* a class that has been realised, whose data leads to a class_rw_t first, the
\* references always have a placeholder.
RefsAgree ==
    OfListed(LAMBDA r, c : r.name = IF args.image.source.rw THEN PlaceholderOf("class", c.va)
                                    ELSE c.name)
=============================================================================
