---------------------------- MODULE MCFileTables ----------------------------
(***************************************************************************)
(* Instances of the readers of tables in a file: export tries, ar archives, *)
(* symbol tables, code signatures, ZIP files and type encodings.  They      *)
(* share nothing: a behaviour is one of one reader.                         *)
(***************************************************************************)
EXTENDS ExportTrie, ArArchive, SymbolTable, CodeSignature, ZipFile, TypeEncodings

vars == <<exportVars, arVars, symVars, csVars, zipVars, encVars>>

Init ==
    \/ ExportInit /\ ArOff /\ SymOff /\ CsOff /\ ZipOff /\ EncOff
    \/ ExportOff /\ ArInit /\ SymOff /\ CsOff /\ ZipOff /\ EncOff
    \/ ExportOff /\ ArOff /\ SymInit /\ CsOff /\ ZipOff /\ EncOff
    \/ ExportOff /\ ArOff /\ SymOff /\ CsInit /\ ZipOff /\ EncOff
    \/ ExportOff /\ ArOff /\ SymOff /\ CsOff /\ ZipInit /\ EncOff
    \/ ExportOff /\ ArOff /\ SymOff /\ CsOff /\ ZipOff /\ EncInit

Export == ExportNext /\ UNCHANGED <<arVars, symVars, csVars, zipVars, encVars>>

Next ==
    \/ Export
    \/ ArNext /\ UNCHANGED <<exportVars, symVars, csVars, zipVars, encVars>>
    \/ SymNext /\ UNCHANGED <<exportVars, arVars, csVars, zipVars, encVars>>
    \/ CsNext /\ UNCHANGED <<exportVars, arVars, symVars, zipVars, encVars>>
    \/ ZipNext /\ UNCHANGED <<exportVars, arVars, symVars, csVars, encVars>>
    \/ EncNext /\ UNCHANGED <<exportVars, arVars, symVars, csVars, zipVars>>

\* The readers are loops that nothing interrupts; of one it is asked whether it ends.
Spec == Init /\ [][Next]_vars /\ WF_vars(Export)

-----------------------------------------------------------------------------
\* Tries of two nodes, each leading to none, one or two of: itself, the other, outside
\* of the data, and what cannot be read; with labels that are empty or not.
Targets == {Outside, Unreadable, 1, 2}

Edges == [label : {<<>>, <<1>>}, to : Targets]

Fans == {<<>>} \cup {<<e>> : e \in Edges}
               \cup {<<e, [label |-> <<2>>, to |-> t]>> : e \in Edges, t \in Targets}

TrieNodes ==
    [terminal : {"none", "export"}, cut : {"none"}, children : Fans]
        \cup [terminal : {"reexport"}, cut : NodeCuts, children : {<<[label |-> <<1>>, to |-> 2]>>}]

MCTries == {<<>>} \cup {<<m, n>> : m \in TrieNodes, n \in TrieNodes}

\* Archives of up to three members of sizes odd and even, with short and long names of
\* which two may be the same, whole, ended after any byte, or with a size that is no
\* number.  The names: 1 and 2 are short, 3 and 4 are long, 9 is ARFILENAMES.
Sources ==
    UNION {[1..n -> [name : {1, 3, 4}, size : {0, 3, 4}]] : n \in 0..2}
        \cup {<<[name |-> 3, size |-> 3], [name |-> m, size |-> 1], [name |-> 4, size |-> 2]>> : m \in {1, 2, 3}}

MCArchives ==
    {Written(style, s, len, 0) : style \in {"bsd", "sysv"}, s \in Sources, len \in {0, 6, 30, 71, 80, 150, 200, 999}}
        \cup UNION {{Written(style, s, 999, k) : k \in DOMAIN s} : style \in {"bsd", "sysv"}, s \in Sources}

MCLongNames == {3, 4}

\* The layouts are what IsWritten says of a file.
ASSUME LayoutsAssumption == \A a \in MCArchives : IsWritten(a)

\* Images of up to three symbols at two addresses, with a section of two stubs for
\* indirect symbols of which one may be local and one may be past the symbols, and a
\* string at an address that may have a name already.
Symbols ==
    [value : {0, 16}, type : {"defined"}, start : {"plain", "marked"}, name : {1, 2}]
        \cup [value : {16}, type : {"defined", "undefined", "stab"}, start : {"temporary"}, name : {3}]
        \cup [value : {16}, type : {"undefined", "defined"}, start : {"marked"}, name : {NoName, 4}]

Whole == [symtab |-> "there", dysymtab |-> "there", symbols |-> <<>>, sections |-> TRUE,
          indirect |-> <<0, Local, 1, 2>>,
          stubs |-> <<[addr |-> 8, size |-> 8, first |-> 0, count |-> 3],
                      [addr |-> 16, size |-> 0, first |-> 0, count |-> 0],
                      [addr |-> 32, size |-> 4, first |-> 2, count |-> 3]>>,
          lookups |-> TRUE,
          literals |-> <<[addr |-> 16, name |-> 5], [addr |-> 36, name |-> 6], [addr |-> 36, name |-> 7]>>]

MCSymbolFiles ==
    {[Whole EXCEPT !.symbols = s] : s \in UNION {[1..n -> Symbols] : n \in 0..2}}
        \cup {[Whole EXCEPT !.symbols = <<a, b, [value |-> 0, type |-> "defined", start |-> "marked", name |-> 8]>>] :
                  a \in Symbols, b \in Symbols}
        \cup {[Whole EXCEPT !.symtab = s, !.dysymtab = d, !.indirect = i, !.sections = w[1], !.lookups = w[2]] :
                  s \in {"none", "there", "cut", "gone"}, d \in {"none", "there", "cut", "gone"},
                  i \in {Whole.indirect, <<>>}, w \in {<<TRUE, TRUE>>, <<FALSE, TRUE>>, <<FALSE, FALSE>>}}

\* Signatures of up to three slots that lead to the same or different blobs: a code
\* directory of each version, of lengths at which each of its fields just fits or just
\* does not, and others.
Directory(version, len) ==
    [magic |-> "directory", len |-> len, version |-> version, ident |-> 30, team |-> 33,
     texts |-> (30 :> 1) @@ (33 :> 2)]

Other(magic, len) == [magic |-> magic, len |-> len]

BlobsOf(version, len) ==
    (100 :> Directory(version, len)) @@ (200 :> Directory(4, 88)) @@ (300 :> Other("xml", 8))
        @@ (310 :> Other("xml", 40)) @@ (320 :> Other("der", 7)) @@ (400 :> Other("cms", 60))
        @@ (330 :> Other("requirements", 12)) @@ (340 :> Other("other", 12)) @@ (350 :> Other("der", 20))

SlotsOver(places) == [type : {"directory", "alternate"}, offset : places]

Signed(slots, blobs, len) ==
    [len |-> len, known |-> TRUE, stated |-> 12, count |-> Len(slots), slots |-> slots, blobs |-> blobs]

MCSignatures ==
    {Signed(<<s, t>>, BlobsOf(v, len), 430) :
        s \in SlotsOver({100}), t \in SlotsOver({100, 200, 300}),
        v \in 0..4, len \in {43, 44, 51, 52, 63, 64, 87, 88}}
    \cup {Signed(<<s, t, u>>, BlobsOf(4, 88), len) :
             s \in SlotsOver({100, 300, 320, 400}), t \in SlotsOver({200, 310, 330, 999}),
             u \in SlotsOver({100, 340, 300, 350}), len \in {12, 28, 345, 459, 460}}
    \cup {[Signed(<<[type |-> "directory", offset |-> 100]>>, BlobsOf(4, 88), len)
              EXCEPT !.known = k, !.stated = st, !.count = n] :
             k \in BOOLEAN, st \in {12, 500}, n \in {0, 1, 4}, len \in {11, 12, 20}}
    \cup {Signed([k \in 1..4 |-> [type |-> "directory", offset |-> 300]], BlobsOf(4, 88), 430)}

\* ZIP files.  Written ones have up to three entries, of sizes with which the offset
\* of an entry, that of the directory or neither passes Width, or an entry does alone;
\* of others two, of which the names may be the same and one may be a directory.
EntriesOf(names, sizes) ==
    [name : names, dir : {FALSE}, nameLen : {5}, len : sizes, content : {"a", "b"}]

WrittenJob(list) == [foreign |-> FALSE, entries |-> list, sound |-> FALSE]

DirEntry == [name |-> 3, dir |-> TRUE, nameLen |-> 9, len |-> 0, content |-> "dir"]

MCJobs ==
    {WrittenJob(list) : list \in
        {<<>>, <<DirEntry>>} \cup {<<e>> : e \in EntriesOf({1}, {0, 200, 221, 222, 255, 256})}
            \cup {<<e, f>> : e \in EntriesOf({1}, {0, 100, 221}), f \in EntriesOf({2}, {0, 85, 86, 255}) \cup {DirEntry}}
            \cup {<<e, f, g>> : e \in EntriesOf({1}, {0, 64}), f \in EntriesOf({2}, {0, 50, 116, 151}), g \in EntriesOf({4}, {0, 186})}
            \cup {<<[e EXCEPT !.nameLen = 10]>> : e \in EntriesOf({1}, {0})}
            \cup {<<e, e, e, e>> : e \in EntriesOf({1}, {0})}}
    \cup {ForeignJob(list, extra, tail, method, comment, fault) :
             list \in {<<e, f>> : e \in EntriesOf({1}, {7}), f \in EntriesOf({1, 2}, {0, 7}) \cup {DirEntry}},
             extra \in {0, 4}, tail \in {0, 3}, method \in {"stored", "deflated", "other"},
             comment \in {0, 21, 22, 40, 41}, fault \in Faults}

\* Types that are made of up to two others, one of them of others again.
Type(is, tag, of) == [is |-> is, tag |-> tag, of |-> of]

IntType == Type("plain", <<"i">>, <<>>)
String == Type("object", <<"NSString">>, <<>>)
Simple ==
    {IntType, Type("plain", <<"v">>, <<>>), Type("object", <<>>, <<>>), String,
     Type("block", <<>>, <<>>), Type("bits", <<>>, <<>>), Type("opaque", <<"_", "CFString">>, <<>>)}

StructTags == {<<"CGRect">>, <<"_", "NSRange">>, <<>>}

MadeOf(s) ==
    {Type(is, <<>>, <<t>>) : is \in {"pointer", "const", "array"}, t \in s}
        \cup {Type("struct", tag, <<t, IntType>>) : tag \in StructTags, t \in s}
        \cup {Type("struct", <<"pair<A", ",", "T", "uple>">>, <<>>), Type("union", <<"U">>, <<>>)}
        \cup {Type("union", <<"U">>, <<t, IntType>>) : t \in s}

Nested == MadeOf(MadeOf({IntType, String}))

AllTypes == Simple \cup MadeOf(Simple) \cup Nested

Cut(text, n) == SubSeq(text, 1, Min({n, Len(text)}))

\* Methods of up to two arguments, of selectors that ask for as many, for fewer or for
\* more; whole or cut short.
Method(types, name, cut) ==
    LET all == <<types[1], Type("object", <<>>, <<>>), Type("plain", <<":">>, <<>>)>> \o Tail(types)
    IN  [kind |-> "method", types |-> all, name |-> name,
         text |-> Cut(MethodText(all), cut)]

Selectors == {[colons |-> 0, tail |-> FALSE], [colons |-> 2, tail |-> FALSE], [colons |-> 1, tail |-> TRUE],
              [colons |-> 3, tail |-> FALSE]}

\* What attributes a property has besides its type.
Attributes ==
    {<<>>, <<<<"R">>, <<"N">>, <<"V", "_name">>>>, <<<<"C">>, <<"D">>, <<"G", "title">>>>,
     <<<<"&">>, <<"S", "setTitle:">>, <<"W">>>>}

MCMembers ==
    {Method(<<t, u, String>>, [colons |-> 2, tail |-> FALSE], 99) :
            t \in {IntType, Type("union", <<"U">>, <<IntType>>)}, u \in AllTypes}
        \cup {Method(<<IntType, t, u>>, s, 99) : t \in Simple, u \in Simple, s \in Selectors}
        \cup {Method(<<IntType, t, String>>, [colons |-> 2, tail |-> FALSE], cut) :
                  t \in MadeOf(MadeOf({IntType})), cut \in 0..20}
        \cup {[kind |-> "ivar", types |-> <<t>>, text |-> Cut(Encoding(t), cut)] :
                  t \in MadeOf(MadeOf({IntType})), cut \in 0..4}
        \cup {[kind |-> "property", types |-> <<t>>, attributes |-> <<>>,
                text |-> Cut(PropertyText(t, <<>>), cut)] : t \in MadeOf(MadeOf({IntType})), cut \in 0..5}
        \cup {[kind |-> "property", types |-> <<t>>, attributes |-> a, text |-> PropertyText(t, a)] :
                  t \in AllTypes, a \in Attributes}
        \cup {[kind |-> "ivar", types |-> <<t>>, text |-> Encoding(t)] : t \in AllTypes}
=============================================================================
